---- MODULE Spec2Model ----
(***************************************************************************)
(* KeyValues (src/code/CairoText.hpp, lines 666-1319): the document tree   *)
(* and the character scanner KeyValues::ParseString.                       *)
(*                                                                         *)
(* A string is a sequence of one-character strings.  A KeyValues object is *)
(* a record of the heap `kvs`; a KeyValues* is an index into `kvs`.  One   *)
(* iteration of the scan loop of ParseString is one step of the model.     *)
(***************************************************************************)
EXTENDS Integers, Sequences, FiniteSets, TLC

VARIABLES
    phase,          \* "idle" | "scan" (inside ParseString) | "returned" | "undefined"
    ret,            \* value returned by the last ParseString / ParseFile call
    nparses,        \* number of ParseString / ParseFile calls made on the object
    kvs,            \* heap of KeyValues objects; kvs[this] is the object parsed into
    pCallback,      \* KeyValues::pCallback is set (TRUE) or nullptr (FALSE)
    calls,          \* the (line, char, error) triples handed to the callback
    errors,         \* history: every ReportError call of the current parse
    text,           \* ParseString: the argument `string`
    i,              \* ParseString: loop index
    nline,          \* ParseString locals, named as in the source
    nchar,
    bracket_level,
    inquote,
    incomment,
    parsed_key,
    buf,            \* buf[0 .. bufpos-1]; bufpos is Len(buf)
    pc,
    nc,
    CurrentKV,
    CurrentKey,
    stackpos,
    stack,          \* stack[k+1] is the source's stack[k], for the slots written
    unclosed,       \* history: sections entered by '{' and not yet left by '}'
    nops,           \* number of calls made on the object other than parses
    out,            \* what DumpToStream has written to its stream
    errno,          \* the C library's errno
    call,           \* history: the last getter, setter or remover call and what
                    \* it returned
    dumped,         \* history: the tree that the text in `out` was dumped from, and
                    \* whether its quoting was consistent
    dstack,         \* DumpToStreamInternal: the calls in progress, outermost
                    \* first, each with its section, its indent and the next
                    \* child to dump
    bexpr,          \* a BoolExpression object (Expr.hpp)
    ctx             \* a CairoTextContext object and the fonts it has created

locals == <<text, i, nline, nchar, bracket_level, inquote, incomment, parsed_key,
            buf, pc, nc, CurrentKV, CurrentKey, stackpos, stack, unclosed>>
object == <<kvs, pCallback, calls, errors>>
env == <<nops, out, errno, call, dumped, dstack, bexpr, ctx>>
vars == <<phase, ret, nparses, object, locals, env>>

----------------------------------------------------------------------------
(* Bounds of the model *)

\* longest text over Alphabet that is parsed
MaxLen == 4

\* most "key value" lines of a text of PairCases
MaxPairs == 2

\* most ParseString / ParseFile calls on one object
MaxParses == 2

\* most other calls on one object
MaxOps == 2

----------------------------------------------------------------------------
(* Characters and strings *)

NL == "\n"
TAB == "\t"
CR == "\r"
SP == " "
QUOTE == "\""
LBRACE == "{"
RBRACE == "}"
SLASH == "/"

\* a char pointer that is nullptr
NULL == <<"nullptr">>

\* an object of automatic storage that was never assigned
Uninit == "uninit"

\* what reading an unassigned char can give: any byte; the scanner only ever
\* compares it with '/'
GarbageChars == {SLASH, "?"}

\* a KeyValues* that points to no object of the heap
Wild == 0

\* the object ParseString is called on
this == 1

_internal_isspace(ch) == ch \in {SP, TAB, NL, CR}

\* the characters the bounded texts are made of
Alphabet == {"a", SP, TAB, CR, NL, QUOTE, LBRACE, RBRACE, SLASH}

RECURSIVE TextsUpTo(_)
TextsUpTo(n) ==
    IF n = 0 THEN {<<>>}
    ELSE LET P == TextsUpTo(n - 1)
         IN  P \cup {Append(s, ch) : s \in {p \in P : Len(p) = n - 1}, ch \in Alphabet}

\* the inputs named in the specification's testable properties
ExNested == <<"A", SP, LBRACE, SP, "B", SP, LBRACE, SP, RBRACE, SP, RBRACE>>
ExExtraClose == <<"A", SP, LBRACE, SP, RBRACE, SP, RBRACE>>
ExUnnamed == <<LBRACE, SP, "k", SP, "v", SP, RBRACE>>
ExQuoteBreak == <<"k", SP, QUOTE, "u", "n", "t", "e", "r", "m", "i", "n", "a", "t", "e", "d", NL>>
ExComment == <<"k", SP, "v", SP, SLASH, SLASH, SP, "t", "r", "a", "i", "l", "i", "n", "g", SP,
               "c", "o", "m", "m", "e", "n", "t", NL, "k", "2", SP, "v", "2">>
ExCommentNL == Append(ExComment, NL)
Examples == {ExNested, ExExtraClose, ExUnnamed, ExQuoteBreak, ExComment, ExCommentNL}

\* lines "k<j> v<j>", each with or without a trailing "//c" comment, joined by
\* newlines, with or without a final newline
PairKey(j) == <<"k", <<"1", "2", "3", "4">>[j]>>
PairValue(j) == <<"v", <<"1", "2", "3", "4">>[j]>>
PairLine(j, commented) ==
    PairKey(j) \o <<SP>> \o PairValue(j) \o
    (IF commented THEN <<SP, SLASH, SLASH, "c">> ELSE <<>>)

RECURSIVE PairLines(_, _)
PairLines(n, comments) ==
    IF n = 0 THEN <<>>
    ELSE PairLines(n - 1, comments) \o (IF n > 1 THEN <<NL>> ELSE <<>>) \o
         PairLine(n, n \in comments)

\* each case is a text and the pairs written in it
PairCases ==
    {[text |-> PairLines(n, cm) \o (IF final THEN <<NL>> ELSE <<>>),
      pairs |-> [j \in 1..n |-> [key |-> PairKey(j), value |-> PairValue(j)]]] :
        n \in 1..MaxPairs, cm \in SUBSET (1..MaxPairs), final \in BOOLEAN}

\* further inputs: a key left pending inside a section that is closed, then a
\* second section
ExPendingKey == <<"a", LBRACE, "b", SP, RBRACE, "c", SP, LBRACE, RBRACE>>
\* a quoted value made of every character that is special outside a quote
ExQuoted == <<"k", SP, QUOTE, "a", SP, LBRACE, SLASH, SLASH, RBRACE, TAB, CR, QUOTE>>
\* a '}' with no section open, then an entry
ExStrayClose == <<RBRACE, SP, "k", SP, "v", NL>>
\* a quoted key whose unquoted value ends at a newline
ExQuotedKey == <<QUOTE, "k", QUOTE, SP, "v", NL>>
\* a quoted entry, then a section whose name is not quoted
ExQuotedThenSection == <<QUOTE, "k", QUOTE, SP, QUOTE, "v", QUOTE, SP, "a", LBRACE, RBRACE>>
Probes == {ExPendingKey, ExQuoted, ExStrayClose, ExQuotedKey, ExQuotedThenSection}

Inputs == TextsUpTo(MaxLen) \cup Examples \cup {pcase.text : pcase \in PairCases} \cup Probes

nlen == Len(text)

----------------------------------------------------------------------------
(* Objects *)

\* KeyValues::KeyValues(): name(nullptr), good(true), quoted(false)
NewKeyValues ==
    [name |-> NULL, good |-> TRUE, quoted |-> FALSE,
     keys |-> <<>>, child_sections |-> <<>>]

\* KeyValues::KeyValues(const char *name)
NewNamedKeyValues(name) == [NewKeyValues EXCEPT !.name = name]

\* KeyValues::Key::Key(): only `cached` is initialised
\* a double, as the decimal it stands for: sign, integer digits without
\* leading zeros, fraction digits without trailing zeros
Double(neg, ip, fp) == [neg |-> neg, ip |-> ip, fp |-> fp]
ZeroDouble == Double(FALSE, <<>>, <<>>)

\* no tree dumped yet
NoTree == [none |-> TRUE]

\* no call made yet
NoCall == [op |-> "none"]

\* no BoolExpression has been constructed
NoExpr == [stage |-> "none"]

\* CairoTextContext::INVALID_FONT; the other handles are 1, 2, .. in the order
\* in which the fonts were created
INVALID_FONT == 0

\* a CairoTextContext as constructed: no default font, an empty font list (the
\* pairs of ref name and handle), no FreeType library; fonts holds every
\* Font_t the context has created, fonts[h] being the one with handle h
NewContext ==
    [state |-> "ok", freetype_ |-> FALSE, defaultFont_ |-> INVALID_FONT,
     fontList_ |-> {}, fonts |-> <<>>]

\* (cachedv is the union of ival, fval and bval: the member that `cached`
\* names is the one that holds a value; scanned_in is history: the section
\* that was CurrentKV when the pending key was committed)
NewKey == [key |-> NULL, value |-> NULL, quoted |-> FALSE, quoted_init |-> FALSE,
           scanned_in |-> NULL,
           cached |-> "NONE",
           cachedv |-> [ival |-> 0, fval |-> ZeroDouble, bval |-> FALSE]]

Good == kvs[this].good

\* what a read of CurrentKey.quoted can give
QuotedReads == IF CurrentKey.quoted_init THEN {CurrentKey.quoted} ELSE BOOLEAN

\* ReportError without `good = false`
ReportErrorKeepsGood(st, line, ch, err) ==
    [good |-> st.good,
     errors |-> Append(st.errors, <<line, ch, err>>),
     calls |-> IF pCallback THEN Append(st.calls, <<line, ch, err>>) ELSE st.calls]

\* KeyValues::ReportError applied to the object state st = [good, errors, calls]
ReportError(st, line, ch, err) ==
    [good |-> FALSE,
     errors |-> Append(st.errors, <<line, ch, err>>),
     calls |-> IF pCallback THEN Append(st.calls, <<line, ch, err>>) ELSE st.calls]

ObjNow == [good |-> Good, errors |-> errors, calls |-> calls]

\* the object state st written back to the variables
StoreObj(st) ==
    /\ kvs' = [kvs EXCEPT ![this].good = st.good]
    /\ errors' = st.errors
    /\ calls' = st.calls
    /\ UNCHANGED pCallback

----------------------------------------------------------------------------
(* ParseString *)

Init ==
    /\ phase = "idle"
    /\ ret = FALSE
    /\ nparses = 0
    /\ kvs = <<NewKeyValues>>
    /\ pCallback = FALSE
    /\ calls = <<>>
    /\ errors = <<>>
    /\ text = <<>>
    /\ i = 0
    /\ nline = 0
    /\ nchar = 0
    /\ bracket_level = 0
    /\ inquote = FALSE
    /\ incomment = FALSE
    /\ parsed_key = FALSE
    /\ buf = <<>>
    /\ pc = Uninit
    /\ nc = Uninit
    /\ CurrentKV = this
    /\ CurrentKey = NewKey
    /\ stackpos = 0
    /\ stack = <<this>>
    /\ unclosed = <<>>
    /\ nops = 0
    /\ out = <<>>
    /\ errno = "0"
    /\ call = NoCall
    /\ dumped = NoTree
    /\ dstack = <<>>
    /\ bexpr = NoExpr
    /\ ctx = NewContext

\* ParseString, entry to the first loop test: the locals are set up and good is
\* set to true
ParseStringEnter(string) ==
    /\ phase' = "scan"
    /\ nparses' = nparses + 1
    /\ text' = string
    /\ i' = 0
    /\ nline' = 0
    /\ nchar' = 0
    /\ bracket_level' = 0
    /\ inquote' = FALSE
    /\ incomment' = FALSE
    /\ parsed_key' = FALSE
    /\ buf' = <<>>
    /\ pc' = Uninit
    /\ nc' = Uninit
    /\ CurrentKV' = this
    /\ CurrentKey' = NewKey
    /\ stackpos' = 0
    /\ stack' = <<this>>
    /\ unclosed' = <<>>
    /\ kvs' = [kvs EXCEPT ![this].good = TRUE]
    /\ errors' = <<>>
    /\ UNCHANGED <<ret, pCallback, calls, env>>

ParseString ==
    /\ phase = "idle"
    /\ \E string \in Inputs : ParseStringEnter(string)

\* the character looked at in this iteration, and pc / nc as the loop head leaves
\* them: each is assigned only when its neighbour exists
c == IF i < nlen THEN text[i + 1] ELSE Uninit
pcNow == IF i > 0 THEN text[i] ELSE pc
ncNow == IF i < nlen - 1 THEN text[i + 2] ELSE nc

\* pc and nc are read only in the comment test, and only when c is '/'
PcReads == IF c = SLASH /\ pcNow = Uninit THEN GarbageChars ELSE {pcNow}
NcReads == IF c = SLASH /\ ncNow = Uninit THEN GarbageChars ELSE {ncNow}

\* the comment test without `&& !inquote`
IsCommentStartInQuote(p, n) == c = SLASH /\ (p = SLASH \/ n = SLASH)

\* c == '/' && (pc == '/' || nc == '/') && !inquote
IsCommentStart(p, n) == c = SLASH /\ (p = SLASH \/ n = SLASH) /\ ~inquote

\* the loop head of one iteration in which pc reads as p and nc as n
LoopHead(p, n) ==
    /\ phase = "scan"
    /\ i < nlen
    /\ pc' = p
    /\ nc' = n

\* i++, nchar++ of the for statement, after an iteration that left i at j and
\* nchar at k
LoopStep(j, k) ==
    /\ i' = j + 1
    /\ nchar' = k + 1

\* a return that gives true whatever v is
ReturnTrue(v) ==
    /\ phase' = "returned"
    /\ ret' = TRUE

\* return v
Return(v) ==
    /\ phase' = "returned"
    /\ ret' = v

\* the scan goes on
Continue ==
    /\ phase' = "scan"
    /\ UNCHANGED <<ret>>

\* a pointer that is not an object of the heap is dereferenced
Undefined ==
    /\ phase' = "undefined"
    /\ UNCHANGED <<ret>>

\* a key commit that also pushes the key as an entry that has no value yet
CommitKeyPushesEntry(setq, q) ==
    /\ CurrentKey' = [CurrentKey EXCEPT !.key = buf,
                                        !.quoted = IF setq THEN q ELSE @,
                                        !.quoted_init = IF setq THEN TRUE ELSE @,
                                        !.scanned_in = CurrentKV]
    /\ parsed_key' = TRUE
    /\ buf' = <<>>
    /\ kvs' = IF CurrentKV \in DOMAIN kvs
              THEN [kvs EXCEPT ![CurrentKV].keys =
                       Append(@, [key |-> buf, value |-> NULL, quoted |-> FALSE,
                                  cached |-> "NONE", cachedv |-> CurrentKey.cachedv])]
              ELSE kvs
    /\ UNCHANGED CurrentKV
    /\ Continue

\* the token in buf becomes the pending key; setq says whether this place of the
\* source assigns CurrentKey.quoted, and q is what it assigns
CommitKey(setq, q) ==
    /\ CurrentKey' = [CurrentKey EXCEPT !.key = buf,
                                        !.quoted = IF setq THEN q ELSE @,
                                        !.quoted_init = IF setq THEN TRUE ELSE @,
                                        !.scanned_in = CurrentKV]
    /\ parsed_key' = TRUE
    /\ buf' = <<>>
    /\ UNCHANGED <<kvs, CurrentKV>>
    /\ Continue

\* the token in buf becomes the value of the pending key, and the entry is
\* pushed onto CurrentKV->keys
CommitValue(setq, q) ==
    /\ parsed_key' = FALSE
    /\ buf' = <<>>
    /\ UNCHANGED CurrentKV
    /\ \E rq \in (IF setq THEN {q} ELSE QuotedReads) :
          /\ CurrentKey' = [CurrentKey EXCEPT !.key = NULL, !.value = NULL,
                                              !.quoted = rq, !.quoted_init = TRUE]
          /\ IF CurrentKV \in DOMAIN kvs
             THEN /\ kvs' = [kvs EXCEPT ![CurrentKV].keys =
                               Append(@, [key |-> CurrentKey.key, value |-> buf,
                                          quoted |-> rq, cached |-> CurrentKey.cached,
                                          cachedv |-> CurrentKey.cachedv])]
                  /\ Continue
             ELSE /\ UNCHANGED kvs
                  /\ Undefined

Commit(setq, q) == IF parsed_key THEN CommitValue(setq, q) ELSE CommitKey(setq, q)

\* c == '\n' inside a quote: MISSING_QUOTE, return false
NewlineInQuote ==
    \E p \in PcReads, n \in NcReads :
        /\ LoopHead(p, n)
        /\ c = NL
        /\ inquote
        /\ StoreObj(ReportError(ObjNow, nline, nchar, "MISSING_QUOTE"))
        /\ Return(FALSE)
        /\ UNCHANGED <<env, nparses, text, i, nline, nchar, bracket_level, inquote, incomment,
                       parsed_key, buf, CurrentKV, CurrentKey, stackpos, stack, unclosed>>

\* c == '\n' outside a quote
Newline ==
    \E p \in PcReads, n \in NcReads :
        /\ LoopHead(p, n)
        /\ c = NL
        /\ ~inquote
        /\ IF Len(buf) > 0
           THEN Commit(FALSE, FALSE)
           ELSE /\ UNCHANGED <<kvs, CurrentKV, CurrentKey, parsed_key, buf>>
                /\ Continue
        /\ incomment' = FALSE
        /\ inquote' = FALSE
        /\ nline' = nline + 1
        /\ LoopStep(i, 0)
        /\ UNCHANGED <<env, nparses, pCallback, calls, errors, text, bracket_level,
                       stackpos, stack, unclosed>>

\* a '/' next to a '/' outside a quote
CommentStart ==
    \E p \in PcReads, n \in NcReads :
        /\ LoopHead(p, n)
        /\ c # NL
        /\ IsCommentStart(p, n)
        /\ incomment' = TRUE
        /\ LoopStep(i, nchar)
        /\ Continue
        /\ UNCHANGED <<env, nparses, object, text, nline, bracket_level, inquote, parsed_key,
                       buf, CurrentKV, CurrentKey, stackpos, stack, unclosed>>

\* any character inside a comment
InComment ==
    \E p \in PcReads, n \in NcReads :
        /\ LoopHead(p, n)
        /\ c # NL
        /\ ~IsCommentStart(p, n)
        /\ incomment
        /\ LoopStep(i, nchar)
        /\ Continue
        /\ UNCHANGED <<env, nparses, object, text, nline, bracket_level, inquote, incomment,
                       parsed_key, buf, CurrentKV, CurrentKey, stackpos, stack, unclosed>>

\* the guard shared by the branches below the comment tests
PastComment(p, n) ==
    /\ LoopHead(p, n)
    /\ c # NL
    /\ ~IsCommentStart(p, n)
    /\ ~incomment

\* c == '"' outside a quote
QuoteOpen ==
    \E p \in PcReads, n \in NcReads :
        /\ PastComment(p, n)
        /\ c = QUOTE
        /\ ~inquote
        /\ inquote' = TRUE
        /\ LoopStep(i, nchar)
        /\ Continue
        /\ UNCHANGED <<env, nparses, object, text, nline, bracket_level, incomment, parsed_key,
                       buf, CurrentKV, CurrentKey, stackpos, stack, unclosed>>

\* c == '"' inside a quote
QuoteClose ==
    \E p \in PcReads, n \in NcReads :
        /\ PastComment(p, n)
        /\ c = QUOTE
        /\ inquote
        /\ inquote' = FALSE
        /\ Commit(TRUE, TRUE)
        /\ LoopStep(i, nchar)
        /\ UNCHANGED <<env, nparses, pCallback, calls, errors, text, nline, bracket_level,
                       incomment, stackpos, stack, unclosed>>

\* char buf[512] and KeyValues *stack[512] of ParseString
BUF_SIZE == 512
STACK_SIZE == 512

\* stack[k] = v for the source's index k
StackWrite(k, v) ==
    IF k + 1 = Len(stack) + 1 THEN Append(stack, v) ELSE [stack EXCEPT ![k + 1] = v]

\* '{' outside a quote with a pending key or a token in buf
EnterScope ==
    \E p \in PcReads, n \in NcReads :
        /\ PastComment(p, n)
        /\ c = LBRACE
        /\ ~inquote
        /\ parsed_key \/ Len(buf) > 0
        /\ LET pKV == Len(kvs) + 1
               name == IF parsed_key THEN CurrentKey.key ELSE buf
           IN  \E rq \in QuotedReads :
                 /\ CurrentKey' = [CurrentKey EXCEPT
                                      !.key = IF parsed_key THEN NULL ELSE @,
                                      !.quoted = rq, !.quoted_init = TRUE]
                 /\ buf' = IF parsed_key THEN buf ELSE <<>>
                 /\ parsed_key' = FALSE
                 /\ bracket_level' = bracket_level + 1
                 /\ stackpos' = stackpos + 1
                 /\ unclosed' = Append(unclosed, pKV)
                 /\ IF CurrentKV \in DOMAIN kvs /\ stackpos + 1 >= 0
                    THEN /\ kvs' = Append([kvs EXCEPT ![CurrentKV].child_sections =
                                             Append(@, pKV)],
                                          [NewNamedKeyValues(name) EXCEPT !.quoted = rq])
                         /\ CurrentKV' = pKV
                         /\ stack' = StackWrite(stackpos + 1, pKV)
                         /\ Continue
                    ELSE /\ kvs' = Append(kvs, [NewNamedKeyValues(name) EXCEPT !.quoted = rq])
                         /\ UNCHANGED <<CurrentKV, stack>>
                         /\ Undefined
        /\ LoopStep(i, nchar)
        /\ UNCHANGED <<env, nparses, pCallback, calls, errors, text, nline, inquote, incomment>>

\* the UNNAMED_SECTION branch, but with the section it allocates pushed onto the
\* current section's children
EnterScopeUnnamedKeepsChild ==
    \E p \in PcReads, n \in NcReads :
        /\ PastComment(p, n)
        /\ c = LBRACE
        /\ ~inquote
        /\ ~parsed_key
        /\ Len(buf) = 0
        /\ LET st == ReportError(ObjNow, nline, nchar, "UNNAMED_SECTION")
               pKV == Len(kvs) + 1
               at == IF CurrentKV \in DOMAIN kvs THEN CurrentKV ELSE this
           IN  /\ kvs' = Append([kvs EXCEPT ![this].good = st.good,
                                            ![at].child_sections = Append(@, pKV)],
                                NewKeyValues)
               /\ errors' = st.errors
               /\ calls' = st.calls
        /\ Return(FALSE)
        /\ UNCHANGED <<env, nparses, pCallback, text, i, nline, nchar, bracket_level, inquote,
                       incomment, parsed_key, buf, CurrentKV, CurrentKey, stackpos, stack,
                       unclosed>>

\* '{' outside a quote with no pending key and an empty buf: UNNAMED_SECTION
EnterScopeUnnamed ==
    \E p \in PcReads, n \in NcReads :
        /\ PastComment(p, n)
        /\ c = LBRACE
        /\ ~inquote
        /\ ~parsed_key
        /\ Len(buf) = 0
        /\ LET st == ReportError(ObjNow, nline, nchar, "UNNAMED_SECTION")
           IN  /\ kvs' = Append([kvs EXCEPT ![this].good = st.good], NewKeyValues)
               /\ errors' = st.errors
               /\ calls' = st.calls
        /\ Return(FALSE)
        /\ UNCHANGED <<env, nparses, pCallback, text, i, nline, nchar, bracket_level, inquote,
                       incomment, parsed_key, buf, CurrentKV, CurrentKey, stackpos, stack,
                       unclosed>>

\* '}' outside a quote
ExitScope ==
    \E p \in PcReads, n \in NcReads :
        /\ PastComment(p, n)
        /\ c = RBRACE
        /\ ~inquote
        /\ stackpos' = stackpos - 1
        /\ bracket_level' = bracket_level - 1
        /\ unclosed' = IF Len(unclosed) > 0 THEN SubSeq(unclosed, 1, Len(unclosed) - 1)
                       ELSE unclosed
        /\ IF stackpos - 1 >= 0
           THEN CurrentKV' = stack[stackpos]
           ELSE CurrentKV' \in (DOMAIN kvs) \cup {Wild}
        /\ LoopStep(i, nchar)
        /\ Continue
        /\ UNCHANGED <<env, nparses, object, text, nline, inquote, incomment, parsed_key, buf,
                       CurrentKey, stack>>

\* buf[bufpos++] = c: anything that is not a space, and anything inside a quote
Eat ==
    \E p \in PcReads, n \in NcReads :
        /\ PastComment(p, n)
        /\ c # QUOTE
        /\ ~(~inquote /\ c \in {LBRACE, RBRACE})
        /\ ~_internal_isspace(c) \/ inquote
        /\ buf' = Append(buf, c)
        /\ LoopStep(i, nchar)
        /\ Continue
        /\ UNCHANGED <<env, nparses, object, text, nline, bracket_level, inquote, incomment,
                       parsed_key, CurrentKV, CurrentKey, stackpos, stack, unclosed>>

\* for (; i < nlen - 1 && _internal_isspace(string[i + 1]); i++): the index the
\* loop leaves, started at j
RECURSIVE SkipSpaces(_)
SkipSpaces(j) ==
    IF j < nlen - 1 /\ _internal_isspace(text[j + 2]) THEN SkipSpaces(j + 1) ELSE j

\* a space outside a quote: the token in buf, if any, is committed, and the
\* spaces that follow are skipped
Space ==
    \E p \in PcReads, n \in NcReads :
        /\ PastComment(p, n)
        /\ _internal_isspace(c)
        /\ ~inquote
        /\ IF Len(buf) > 0
           THEN Commit(TRUE, FALSE)
           ELSE /\ UNCHANGED <<kvs, CurrentKV, CurrentKey, parsed_key, buf>>
                /\ Continue
        /\ UNCHANGED inquote
        /\ LoopStep(SkipSpaces(i), nchar)
        /\ UNCHANGED <<env, nparses, pCallback, calls, errors, text, nline, bracket_level,
                       incomment, stackpos, stack, unclosed>>

\* the checks after the loop, and return good
EndOfInput ==
    /\ phase = "scan"
    /\ i >= nlen
    /\ LET s1 == IF inquote THEN ReportError(ObjNow, -1, 0, "MISSING_QUOTE") ELSE ObjNow
           s2 == IF bracket_level > 0 THEN ReportError(s1, -1, 0, "UNTERMINATED_SECTION")
                 ELSE s1
       IN  /\ StoreObj(s2)
           /\ Return(s2.good)
    /\ UNCHANGED <<env, nparses, locals>>

----------------------------------------------------------------------------
(* The object between parses *)

\* the last entry of section s whose key is `key`, 0 if there is none
LastKey(s, key) ==
    LET hits == {j \in 1..Len(kvs[s].keys) :
                    kvs[s].keys[j].key # NULL /\ kvs[s].keys[j].key = key}
    IN  IF hits = {} THEN 0 ELSE CHOOSE j \in hits : \A k \in hits : j >= k

\* the first entry of section s whose key is `key`, 0 if there is none
FirstKey(s, key) ==
    LET hits == {j \in 1..Len(kvs[s].keys) :
                    kvs[s].keys[j].key # NULL /\ kvs[s].keys[j].key = key}
    IN  IF hits = {} THEN 0 ELSE CHOOSE j \in hits : \A k \in hits : j <= k

\* the first entry of section s whose value is `key`, 0 if there is none
FirstValue(s, key) ==
    LET hits == {j \in 1..Len(kvs[s].keys) :
                    kvs[s].keys[j].value # NULL /\ kvs[s].keys[j].value = key}
    IN  IF hits = {} THEN 0 ELSE CHOOSE j \in hits : \A k \in hits : j <= k

\* the sections of the tree below and including s
RECURSIVE Subtree(_)
Subtree(s) ==
    {s} \cup UNION {Subtree(kvs[s].child_sections[j]) : j \in 1..Len(kvs[s].child_sections)}

\* the keys, values and numbers the calls are made with
OpKeys == {<<"k">>, <<"v">>, <<"z">>}
OpStrings == {<<>>, <<"v">>}
OpInts == {7}
OpFloats == {Double(FALSE, <<"3">>, <<>>)}

\* a call other than a parse can be made: the object is not inside ParseString
Callable ==
    /\ phase \in {"idle", "returned"}
    /\ nops < MaxOps

\* what every such call leaves alone
OpFrame ==
    /\ nops' = nops + 1
    /\ UNCHANGED <<phase, ret, nparses, pCallback, calls, errors, locals, out, errno, call, dumped, dstack, bexpr, ctx>>

SetBool(s, key, v) ==
    LET j == FirstKey(s, key) IN
    kvs' = IF j = 0 THEN kvs
           ELSE [kvs EXCEPT ![s].keys[j].cached = "BOOL", ![s].keys[j].cachedv.bval = v]

\* SetInt that stores v but leaves the cache kind as it was
SetIntKeepsKind(s, key, v) ==
    LET j == FirstKey(s, key) IN
    kvs' = IF j = 0 THEN kvs
           ELSE [kvs EXCEPT ![s].keys[j].cachedv.ival = v]

SetInt(s, key, v) ==
    LET j == FirstKey(s, key) IN
    kvs' = IF j = 0 THEN kvs
           ELSE [kvs EXCEPT ![s].keys[j].cached = "INT", ![s].keys[j].cachedv.ival = v]

SetFloat(s, key, v) ==
    LET j == FirstKey(s, key) IN
    kvs' = IF j = 0 THEN kvs
           ELSE [kvs EXCEPT ![s].keys[j].cached = "FLOAT", ![s].keys[j].cachedv.fval = v]

\* SetString that adds an entry when no entry has the key
SetStringOrInsert(s, key, v) ==
    LET j == FirstKey(s, key) IN
    kvs' = IF j = 0
           THEN [kvs EXCEPT ![s].keys =
                    Append(@, [key |-> key, value |-> v, quoted |-> FALSE,
                               cached |-> "NONE", cachedv |-> NewKey.cachedv])]
           ELSE [kvs EXCEPT ![s].keys[j].cached = "NONE", ![s].keys[j].value = v]

SetString(s, key, v) ==
    LET j == FirstKey(s, key) IN
    kvs' = IF j = 0 THEN kvs
           ELSE [kvs EXCEPT ![s].keys[j].cached = "NONE", ![s].keys[j].value = v]

\* ClearKey that leaves the cache kind as it was
ClearKeyKeepsCache(s, key) ==
    LET j == FirstKey(s, key) IN
    kvs' = IF j = 0 THEN kvs
           ELSE [kvs EXCEPT ![s].keys[j].value = <<>>]

ClearKey(s, key) ==
    LET j == FirstKey(s, key) IN
    kvs' = IF j = 0 THEN kvs
           ELSE [kvs EXCEPT ![s].keys[j].value = <<>>, ![s].keys[j].cached = "NONE"]

\* RemoveKey that looks for the key, not the value
RemoveKeyByKey(s, key) ==
    LET j == FirstKey(s, key)
        ks == kvs[s].keys
    IN  kvs' = IF j = 0 THEN kvs
               ELSE [kvs EXCEPT ![s].keys = SubSeq(ks, 1, j - 1) \o SubSeq(ks, j + 1, Len(ks))]

RemoveKey(s, key) ==
    LET j == FirstValue(s, key)
        ks == kvs[s].keys
    IN  kvs' = IF j = 0 THEN kvs
               ELSE [kvs EXCEPT ![s].keys = SubSeq(ks, 1, j - 1) \o SubSeq(ks, j + 1, Len(ks))]

Setters ==
    /\ Callable
    /\ \E s \in Subtree(this), key \in OpKeys :
          \/ \E v \in BOOLEAN : SetBool(s, key, v)
          \/ \E v \in OpInts : SetInt(s, key, v)
          \/ \E v \in OpFloats : SetFloat(s, key, v)
          \/ \E v \in OpStrings : SetString(s, key, v)
    /\ OpFrame

Removers ==
    /\ Callable
    /\ \E s \in Subtree(this), key \in OpKeys :
          \/ ClearKey(s, key)
          \/ RemoveKey(s, key)
    /\ OpFrame

SetErrorCallback ==
    /\ Callable
    /\ \E callback \in BOOLEAN : pCallback' = callback
    /\ nops' = nops + 1
    /\ UNCHANGED <<phase, ret, nparses, kvs, calls, errors, locals, out, errno, call, dumped, dstack, bexpr, ctx>>

\* the deepest indent DumpToStreamInternal writes at
MAX_INDENT_LEVEL == 128

Tabs(n) == [j \in 1..n |-> TAB]

\* s, in quotes if q
Quoted(q, str) == IF q THEN <<QUOTE>> \o str \o <<QUOTE>> ELSE str

\* the lines DumpToStreamInternal writes for the entries j.. of section s, each
\* after `inner` tabs
RECURSIVE DumpKeys(_, _, _)
DumpKeys(s, inner, j) ==
    IF j > Len(kvs[s].keys) THEN <<>>
    ELSE Tabs(inner) \o Quoted(kvs[s].keys[j].quoted, kvs[s].keys[j].key) \o
         <<SP, QUOTE>> \o kvs[s].keys[j].value \o <<QUOTE, NL>> \o
         DumpKeys(s, inner, j + 1)

\* what DumpToStreamInternal(fs, indent) called on section s writes, and what
\* its loop over the child sections j.. writes
RECURSIVE DumpToStreamInternal(_, _)
RECURSIVE DumpChildren(_, _, _)
DumpChildren(s, indent, j) ==
    IF j > Len(kvs[s].child_sections) THEN <<>>
    ELSE DumpToStreamInternal(kvs[s].child_sections[j], indent + 1) \o
         DumpChildren(s, indent, j + 1)

DumpToStreamInternal(s, indent) ==
    IF indent > MAX_INDENT_LEVEL THEN <<>>
    ELSE LET kv == kvs[s]
             named == kv.name # NULL
             inner == IF named THEN indent + 1 ELSE indent
         IN  (IF named
              THEN Tabs(indent) \o Quoted(kv.quoted, kv.name) \o <<NL>> \o
                   Tabs(indent) \o <<LBRACE, NL>>
              ELSE <<>>) \o
             DumpKeys(s, inner, 1) \o
             DumpChildren(s, indent, 1) \o
             (IF named THEN Tabs(indent) \o <<RBRACE, NL>> ELSE <<>>)

\* the indices of `char buf[MAX_INDENT_LEVEL+1]` that one call at `indent`
\* writes, the calls on the children not counted: the tabs, the NUL, for a
\* named section the extra tab and the NUL after it, and the NUL before '}'
IndentWrites(named, indent) ==
    IF indent > MAX_INDENT_LEVEL THEN {}
    ELSE (0..(indent - 1)) \cup {indent} \cup (IF named THEN {indent, indent + 1} ELSE {})

\* the indices written by DumpToStreamInternal(fs, indent) on section s and by
\* the calls it makes on the sections below
RECURSIVE DumpWrites(_, _)
DumpWrites(s, indent) ==
    IF indent > MAX_INDENT_LEVEL THEN {}
    ELSE IndentWrites(kvs[s].name # NULL, indent) \cup
         UNION {DumpWrites(kvs[s].child_sections[j], indent + 1) :
                  j \in 1..Len(kvs[s].child_sections)}

\* where a dump of section s leaves the program: a write past the end of buf
\* may go unnoticed or may not
DumpOutcomes(s) ==
    IF \E w \in DumpWrites(s, 0) : w > MAX_INDENT_LEVEL THEN {phase, "undefined"}
    ELSE {phase}

DumpToStream ==
    /\ Callable
    /\ \E s \in Subtree(this) :
          /\ out' = DumpToStreamInternal(s, 0)
          /\ phase' \in DumpOutcomes(s)
    /\ nops' = nops + 1
    /\ UNCHANGED <<ret, nparses, object, locals, errno, call, dumped, dstack, bexpr, ctx>>

\* the texts parsed when one object is parsed into more than once
ExShortComment == <<"k", SP, "v", SP, SLASH, SLASH, "c", NL>>
ReuseInputs == {<<>>, ExNested, ExUnnamed, ExQuoteBreak, ExShortComment, ExQuoted,
                ExStrayClose}

\* ParseString on an object that may have been parsed into before
ParseStringAgain ==
    /\ phase \in {"idle", "returned"}
    /\ nparses < MaxParses
    /\ \E string \in ReuseInputs : ParseStringEnter(string)

\* ParseFile whose failure to open the file leaves good = true
ParseFileOpenFailureGood ==
    /\ phase \in {"idle", "returned"}
    /\ nparses < MaxParses
    /\ \/ /\ kvs' = [kvs EXCEPT ![this].good = TRUE]
          /\ Return(FALSE)
          /\ errno' = "ENOENT"
          /\ nparses' = nparses + 1
          /\ UNCHANGED <<pCallback, calls, errors, locals, nops, out, call, dumped, dstack, bexpr, ctx>>
       \/ \E buffer \in ReuseInputs : ParseStringEnter(buffer)

\* ParseFile: the file cannot be opened, or its content is handed to
\* ParseString and good is returned
ParseFile ==
    /\ phase \in {"idle", "returned"}
    /\ nparses < MaxParses
    /\ \/ /\ kvs' = [kvs EXCEPT ![this].good = FALSE]
          /\ Return(FALSE)
          /\ errno' = "ENOENT"
          /\ nparses' = nparses + 1
          /\ UNCHANGED <<pCallback, calls, errors, locals, nops, out, call, dumped, dstack, bexpr, ctx>>
       \/ \E buffer \in ReuseInputs : ParseStringEnter(buffer)

Next ==
    \/ ParseString
    \/ NewlineInQuote
    \/ Newline
    \/ CommentStart
    \/ InComment
    \/ QuoteOpen
    \/ QuoteClose
    \/ EnterScope
    \/ EnterScopeUnnamed
    \/ ExitScope
    \/ Eat
    \/ Space
    \/ EndOfInput

Spec == Init /\ [][Next]_vars

\* one object over its life: parses, and the other calls between them
Scan ==
    \/ NewlineInQuote
    \/ Newline
    \/ CommentStart
    \/ InComment
    \/ QuoteOpen
    \/ QuoteClose
    \/ EnterScope
    \/ EnterScopeUnnamed
    \/ ExitScope
    \/ Eat
    \/ Space
    \/ EndOfInput

NextReuse ==
    \/ ParseStringAgain
    \/ ParseFile
    \/ Scan
    \/ Setters
    \/ Removers
    \/ SetErrorCallback
    \/ DumpToStream

SpecReuse == Init /\ [][NextReuse]_vars

----------------------------------------------------------------------------
(* The C library functions the typed reads call *)

Digits == <<"0", "1", "2", "3", "4", "5", "6", "7", "8", "9">>
IsDigit(ch) == \E d \in 1..10 : Digits[d] = ch
DigitVal(ch) == (CHOOSE d \in 1..10 : Digits[d] = ch) - 1

UpperCase == <<"A", "B", "C", "D", "E", "F", "G", "H", "I", "J", "K", "L", "M",
               "N", "O", "P", "Q", "R", "S", "T", "U", "V", "W", "X", "Y", "Z">>
LowerCase == <<"a", "b", "c", "d", "e", "f", "g", "h", "i", "j", "k", "l", "m",
               "n", "o", "p", "q", "r", "s", "t", "u", "v", "w", "x", "y", "z">>

tolower(ch) ==
    IF \E d \in 1..26 : UpperCase[d] = ch
    THEN LowerCase[CHOOSE d \in 1..26 : UpperCase[d] = ch]
    ELSE ch

\* strcmp(a, b) == 0 and strcasecmp(a, b) == 0
strcmp0(a, b) == a = b
strcasecmp0CaseSensitive(a, b) == a = b
strcasecmp0(a, b) ==
    /\ Len(a) = Len(b)
    /\ \A j \in 1..Len(a) : tolower(a[j]) = tolower(b[j])

\* isspace of the C locale (the values drawn hold no \v and no \f)
isspace(ch) == ch \in {SP, TAB, NL, CR}

\* the first position of str at or after j that holds no white space
RECURSIVE LeadingSpaces(_, _)
LeadingSpaces(str, j) ==
    IF j <= Len(str) /\ isspace(str[j]) THEN LeadingSpaces(str, j + 1) ELSE j

\* the first position of str at or after j that holds no digit
RECURSIVE DigitRun(_, _)
DigitRun(str, j) ==
    IF j <= Len(str) /\ IsDigit(str[j]) THEN DigitRun(str, j + 1) ELSE j

\* a digit string without its leading zeros, and without its trailing zeros
RECURSIVE StripLeading(_)
StripLeading(ds) ==
    IF ds # <<>> /\ ds[1] = "0" THEN StripLeading(Tail(ds)) ELSE ds

RECURSIVE StripTrailing(_)
StripTrailing(ds) ==
    IF ds # <<>> /\ ds[Len(ds)] = "0"
    THEN StripTrailing(SubSeq(ds, 1, Len(ds) - 1)) ELSE ds

\* the number a digit string without leading zeros stands for
RECURSIVE DigitsValue(_)
DigitsValue(ds) ==
    IF ds = <<>> THEN 0
    ELSE 10 * DigitsValue(SubSeq(ds, 1, Len(ds) - 1)) + DigitVal(ds[Len(ds)])

\* a > b for digit strings without leading zeros
RECURSIVE DigitsGreater(_, _)
DigitsGreater(a, b) ==
    IF Len(a) # Len(b) THEN Len(a) > Len(b)
    ELSE IF a = <<>> THEN FALSE
    ELSE IF a[1] # b[1] THEN DigitVal(a[1]) > DigitVal(b[1])
    ELSE DigitsGreater(Tail(a), Tail(b))

\* LONG_MAX and -LONG_MIN of a 64-bit long, as digit strings
LONG_MAX == <<"9", "2", "2", "3", "3", "7", "2", "0", "3", "6", "8", "5", "4", "7",
              "7", "5", "8", "0", "7">>
LONG_MIN == <<"9", "2", "2", "3", "3", "7", "2", "0", "3", "6", "8", "5", "4", "7",
              "7", "5", "8", "0", "8">>

\* sign and start of the digits of a number that begins at position j of str
SignAt(str, j) == j <= Len(str) /\ str[j] = "-"
AfterSign(str, j) == IF j <= Len(str) /\ str[j] \in {"-", "+"} THEN j + 1 ELSE j

\* strtol(str, nullptr, 10) called with errno = e: the outcomes [v, errno].
\* With no digits to convert 0 is returned, and the implementation may or may
\* not set EINVAL; out of range sets ERANGE; a conversion leaves errno alone.
\* (v is computed for the digit strings drawn, which are short or out of range.)
strtol(str, e) ==
    LET j == AfterSign(str, LeadingSpaces(str, 1))
        k == DigitRun(str, j)
        ds == StripLeading(SubSeq(str, j, k - 1))
        neg == SignAt(str, LeadingSpaces(str, 1))
    IN  IF k = j THEN {[v |-> 0, errno |-> e], [v |-> 0, errno |-> "EINVAL"]}
        ELSE IF DigitsGreater(ds, IF neg THEN LONG_MIN ELSE LONG_MAX)
             THEN {[v |-> 0, errno |-> "ERANGE"]}
        ELSE {[v |-> IF neg THEN 0 - DigitsValue(ds) ELSE DigitsValue(ds), errno |-> e]}

\* strtod(str, nullptr) called with errno = e, for the decimal forms
\* [sign] digits [. digits] (the values drawn hold no exponent, hex, inf or nan)
strtod(str, e) ==
    LET j == AfterSign(str, LeadingSpaces(str, 1))
        k == DigitRun(str, j)
        dot == k <= Len(str) /\ str[k] = "."
        m == IF dot THEN DigitRun(str, k + 1) ELSE k
        ip == StripLeading(SubSeq(str, j, k - 1))
        fp == IF dot THEN StripTrailing(SubSeq(str, k + 1, m - 1)) ELSE <<>>
        neg == SignAt(str, LeadingSpaces(str, 1))
    IN  IF k = j /\ m <= k + 1
        THEN {[v |-> ZeroDouble, errno |-> e], [v |-> ZeroDouble, errno |-> "EINVAL"]}
        ELSE {[v |-> Double(neg, ip, fp), errno |-> e]}

----------------------------------------------------------------------------
(* The typed reads.  Key::ReadBool / ReadInt / ReadFloat applied to the Key k  *)
(* with errno = e give the outcomes [ok, v, key, errno]: key is k as the call  *)
(* leaves it.                                                                 *)

Cache(k, kind, member, v) ==
    [k EXCEPT !.cached = kind, !.cachedv = [@ EXCEPT ![member] = v]]

ReadBool(k, e) ==
    IF k.cached = "BOOL"
        THEN {[ok |-> TRUE, v |-> k.cachedv.bval, key |-> k, errno |-> e]}
    ELSE IF k.value = NULL
        THEN {[ok |-> FALSE, v |-> FALSE, key |-> k, errno |-> e]}
    ELSE IF strcasecmp0(k.value, <<"t", "r", "u", "e">>) \/ strcmp0(k.value, <<"1">>)
        THEN {[ok |-> TRUE, v |-> TRUE, key |-> Cache(k, "BOOL", "bval", TRUE), errno |-> e]}
    ELSE IF strcasecmp0(k.value, <<"f", "a", "l", "s", "e">>) \/ strcmp0(k.value, <<"0">>)
        THEN {[ok |-> TRUE, v |-> FALSE, key |-> Cache(k, "BOOL", "bval", FALSE), errno |-> e]}
    ELSE {[ok |-> FALSE, v |-> FALSE, key |-> k, errno |-> e]}

ReadInt(k, e) ==
    IF k.cached = "INT"
        THEN {[ok |-> TRUE, v |-> k.cachedv.ival, key |-> k, errno |-> e]}
    ELSE IF k.value = NULL
        THEN {[ok |-> FALSE, v |-> 0, key |-> k, errno |-> e]}
    ELSE {IF r.errno = "0"
          THEN [ok |-> TRUE, v |-> r.v, key |-> Cache(k, "INT", "ival", r.v),
                errno |-> r.errno]
          ELSE [ok |-> FALSE, v |-> 0, key |-> k, errno |-> r.errno] :
          r \in strtol(k.value, e)}

ReadFloat(k, e) ==
    IF k.cached = "FLOAT"
        THEN {[ok |-> TRUE, v |-> k.cachedv.fval, key |-> k, errno |-> e]}
    ELSE IF k.value = NULL
        THEN {[ok |-> FALSE, v |-> ZeroDouble, key |-> k, errno |-> e]}
    ELSE {IF r.errno = "0"
          THEN [ok |-> TRUE, v |-> r.v, key |-> Cache(k, "FLOAT", "fval", r.v),
                errno |-> r.errno]
          ELSE [ok |-> FALSE, v |-> ZeroDouble, key |-> k, errno |-> r.errno] :
          r \in strtod(k.value, e)}

\* The getters called on section s with errno = e: the outcomes [ret, errno].
\* Each loops over copies of the entries (`for (auto _key : this->keys)`), so
\* what the read writes into its Key is written into the copy: the section is
\* left as it was.  (The casts (int) and (float) are exact on the values drawn.)
GetBool(s, key, _default, e) ==
    LET j == FirstKey(s, key) IN
    IF j = 0 THEN {[ret |-> _default, errno |-> e]}
    ELSE {[ret |-> IF r.ok THEN r.v ELSE _default, errno |-> r.errno] :
          r \in ReadBool(kvs[s].keys[j], e)}

GetInt(s, key, _default, e) ==
    LET j == FirstKey(s, key) IN
    IF j = 0 THEN {[ret |-> _default, errno |-> e]}
    ELSE {[ret |-> IF r.ok THEN r.v ELSE _default, errno |-> r.errno] :
          r \in ReadInt(kvs[s].keys[j], e)}

GetFloat(s, key, _default, e) ==
    LET j == FirstKey(s, key) IN
    IF j = 0 THEN {[ret |-> _default, errno |-> e]}
    ELSE {[ret |-> IF r.ok THEN r.v ELSE _default, errno |-> r.errno] :
          r \in ReadFloat(kvs[s].keys[j], e)}

GetDouble(s, key, _default, e) ==
    LET j == FirstKey(s, key) IN
    IF j = 0 THEN {[ret |-> _default, errno |-> e]}
    ELSE {[ret |-> IF r.ok THEN r.v ELSE _default, errno |-> r.errno] :
          r \in ReadFloat(kvs[s].keys[j], e)}

GetString(s, key, _default) ==
    LET j == FirstKey(s, key) IN
    IF j = 0 THEN _default ELSE kvs[s].keys[j].value

HasKey(s, key) == FirstKey(s, key) # 0

GetChild(s, name) ==
    LET cs == kvs[s].child_sections
        hits == {j \in 1..Len(cs) : kvs[cs[j]].name # NULL /\ kvs[cs[j]].name = name}
    IN  IF hits = {} THEN NULL ELSE cs[CHOOSE j \in hits : \A k \in hits : j <= k]

----------------------------------------------------------------------------
(* Reads and writes of one section: the root of a tree as a parse leaves it,  *)
(* then getter, setter, ClearKey, RemoveKey and dump calls on it.             *)

\* an entry as a parse pushes it
Entry(key, value) ==
    [key |-> key, value |-> value, quoted |-> FALSE, cached |-> "NONE",
     cachedv |-> NewKey.cachedv]

\* a number too large for a long
BigNumber == [j \in 1..20 |-> "9"]

\* the keys and values of the entries drawn, and the entry lists: none, every
\* single entry, pairs with equal keys or keys that differ in case only, two
\* lists of three, and an out-of-range number next to a small one
EntryKeys == {<<"k">>, <<"K">>}
EntryValues == {<<>>, <<"a", "b", "c">>, <<"5">>, <<"2", ".", "5">>, <<"T", "r", "u", "e">>,
                <<"f", "a", "l", "s", "e">>, <<"1">>, <<"0">>, BigNumber}
FirstValues == {<<"a", "b", "c">>, <<"5">>, <<"T", "r", "u", "e">>}
SecondValues == {<<"7">>, <<"0">>}
EntryLists ==
    {<<>>}
    \cup {<<Entry(k1, v1)>> : k1 \in EntryKeys, v1 \in EntryValues}
    \cup {<<Entry(k1, v1), Entry(k2, v2)>> :
              k1 \in EntryKeys, v1 \in FirstValues, k2 \in EntryKeys, v2 \in SecondValues}
    \cup {<<Entry(<<"k">>, <<"5">>), Entry(<<"K">>, <<"a", "b", "c">>), Entry(<<"k">>, <<"5">>)>>,
          <<Entry(<<"K">>, <<"k">>), Entry(<<"k">>, <<"7">>), Entry(<<"k">>, <<"k">>)>>,
          <<Entry(<<"k">>, BigNumber), Entry(<<"K">>, <<"5">>)>>}

\* the heap: the root with its entries and three empty child sections A, a, A
AccessHeap(entries) ==
    <<[NewKeyValues EXCEPT !.keys = entries, !.child_sections = <<2, 3, 4>>],
      NewNamedKeyValues(<<"A">>), NewNamedKeyValues(<<"a">>), NewNamedKeyValues(<<"A">>)>>

InitAccess ==
    /\ phase = "idle"
    /\ ret = TRUE
    /\ nparses = 1
    /\ kvs \in {AccessHeap(entries) : entries \in EntryLists}
    /\ pCallback = FALSE
    /\ calls = <<>>
    /\ errors = <<>>
    /\ text = <<>>
    /\ i = 0
    /\ nline = 0
    /\ nchar = 0
    /\ bracket_level = 0
    /\ inquote = FALSE
    /\ incomment = FALSE
    /\ parsed_key = FALSE
    /\ buf = <<>>
    /\ pc = Uninit
    /\ nc = Uninit
    /\ CurrentKV = this
    /\ CurrentKey = NewKey
    /\ stackpos = 0
    /\ stack = <<this>>
    /\ unclosed = <<>>
    /\ nops = 0
    /\ out = <<>>
    /\ errno = "0"
    /\ call = NoCall
    /\ dumped = NoTree
    /\ dstack = <<>>
    /\ bexpr = NoExpr
    /\ ctx = NewContext

\* the arguments of the calls
AccessKeys == {<<"k">>, <<"z">>}
IntDefault == 0 - 1
FloatDefault == Double(FALSE, <<"9">>, <<"5">>)
StringDefault == <<"d">>
SetStrings == {<<>>, <<"1">>}
RemoveArgs == {<<"k">>, <<"5">>, <<"a", "b", "c">>}
ChildNames == {<<"A">>, <<"a">>, <<"z">>}

\* the call of member function op of section s, its arguments and its result
Called(op, s, key, arg, r) == [op |-> op, s |-> s, key |-> key, arg |-> arg, ret |-> r]

\* what a call on the section leaves alone besides the heap and errno
AccessFrame ==
    /\ Callable
    /\ nops' = nops + 1
    /\ UNCHANGED <<phase, ret, nparses, pCallback, calls, errors, locals, out, dumped, dstack, bexpr, ctx>>

TypedGetters ==
    /\ AccessFrame
    /\ UNCHANGED kvs
    /\ \E key \in AccessKeys :
          \/ \E d \in BOOLEAN : \E r \in GetBool(this, key, d, errno) :
                call' = Called("GetBool", this, key, d, r.ret) /\ errno' = r.errno
          \/ \E r \in GetInt(this, key, IntDefault, errno) :
                call' = Called("GetInt", this, key, IntDefault, r.ret) /\ errno' = r.errno
          \/ \E r \in GetFloat(this, key, FloatDefault, errno) :
                call' = Called("GetFloat", this, key, FloatDefault, r.ret) /\ errno' = r.errno
          \/ \E r \in GetDouble(this, key, FloatDefault, errno) :
                call' = Called("GetDouble", this, key, FloatDefault, r.ret) /\ errno' = r.errno

Lookups ==
    /\ AccessFrame
    /\ UNCHANGED <<kvs, errno>>
    /\ \/ \E key \in AccessKeys :
             call' = Called("GetString", this, key, StringDefault,
                            GetString(this, key, StringDefault))
       \/ \E key \in AccessKeys :
             call' = Called("HasKey", this, key, "none", HasKey(this, key))
       \/ \E name \in ChildNames :
             call' = Called("GetChild", this, name, "none", GetChild(this, name))

SetterCalls ==
    /\ AccessFrame
    /\ UNCHANGED errno
    /\ \E key \in AccessKeys :
          \/ \E v \in BOOLEAN :
                SetBool(this, key, v) /\ call' = Called("SetBool", this, key, v, "void")
          \/ \E v \in OpInts :
                SetInt(this, key, v) /\ call' = Called("SetInt", this, key, v, "void")
          \/ \E v \in OpFloats :
                SetFloat(this, key, v) /\ call' = Called("SetFloat", this, key, v, "void")
          \/ \E v \in SetStrings :
                SetString(this, key, v) /\ call' = Called("SetString", this, key, v, "void")

RemoverCalls ==
    /\ AccessFrame
    /\ UNCHANGED errno
    /\ \/ \E key \in AccessKeys :
             ClearKey(this, key) /\ call' = Called("ClearKey", this, key, "none", "void")
       \/ \E key \in RemoveArgs :
             RemoveKey(this, key) /\ call' = Called("RemoveKey", this, key, "none", "void")

DumpCall ==
    /\ Callable
    /\ out' = DumpToStreamInternal(this, 0)
    /\ call' = Called("DumpToStream", this, "none", "none", "void")
    /\ phase' \in DumpOutcomes(this)
    /\ nops' = nops + 1
    /\ UNCHANGED <<ret, nparses, object, locals, errno, dumped, dstack, bexpr, ctx>>

NextAccess ==
    \/ TypedGetters
    \/ Lookups
    \/ SetterCalls
    \/ RemoverCalls
    \/ DumpCall

SpecAccess == InitAccess /\ [][NextAccess]_vars

----------------------------------------------------------------------------
(* The tree as a caller sees it *)

\* the (key, value) pairs of section s, in order
Pairs(s) == [j \in 1..Len(kvs[s].keys) |->
                [key |-> kvs[s].keys[j].key, value |-> kvs[s].keys[j].value]]

\* section s and all below it: names, entries in order, children in order
RECURSIVE Shape(_)
Shape(s) ==
    [name |-> kvs[s].name,
     pairs |-> Pairs(s),
     children |-> [j \in 1..Len(kvs[s].child_sections) |-> Shape(kvs[s].child_sections[j])]]

----------------------------------------------------------------------------
(* Dump and parse again: a tree is dumped, the text is parsed into a new      *)
(* object by FromString, and that tree is dumped in its turn.                 *)

QuotedEntry(key, value) == [Entry(key, value) EXCEPT !.quoted = TRUE]
Section(name, quoted, entries, children) ==
    [name |-> name, good |-> TRUE, quoted |-> quoted, keys |-> entries,
     child_sections |-> children]

\* a token with no white space, no brace, no quote and no '/' next to a '/'
PlainToken(t) ==
    /\ \A j \in 1..Len(t) : t[j] \notin {SP, TAB, CR, NL, LBRACE, RBRACE, QUOTE}
    /\ \A j \in 1..(Len(t) - 1) : ~(t[j] = SLASH /\ t[j + 1] = SLASH)

\* a text that can be written between quotes: no quote, no newline
QuotableText(t) == \A j \in 1..Len(t) : t[j] \notin {QUOTE, NL}

\* heap h is a tree with consistent quoting
ConsistentQuoting(h) ==
    \A s \in DOMAIN h :
        /\ s # this => /\ h[s].name # NULL
                       /\ QuotableText(h[s].name)
                       /\ h[s].quoted \/ PlainToken(h[s].name)
        /\ \A j \in 1..Len(h[s].keys) :
              /\ QuotableText(h[s].keys[j].key)
              /\ h[s].keys[j].quoted \/ PlainToken(h[s].keys[j].key)
              /\ QuotableText(h[s].keys[j].value)

\* the trees dumped; the one with the unquoted key "a b" and the one with a
\* newline in a value are not consistently quoted
SpecialText == <<"x", SP, LBRACE, SLASH, SLASH, RBRACE, TAB, "y">>
RoundTripHeaps ==
    {<<Section(NULL, FALSE, <<>>, <<>>)>>,
     <<Section(NULL, FALSE, <<Entry(<<"k">>, <<"v">>)>>, <<>>)>>,
     <<Section(NULL, FALSE, <<Entry(<<"k">>, <<>>), QuotedEntry(<<"a", SP, "b">>, SpecialText),
                              Entry(<<"k">>, <<"w">>)>>, <<>>)>>,
     <<Section(NULL, FALSE, <<>>, <<2, 3>>),
       Section(<<"A">>, FALSE, <<Entry(<<"k">>, <<"v">>)>>, <<>>),
       Section(<<"A">>, FALSE, <<>>, <<>>)>>,
     <<Section(NULL, FALSE, <<QuotedEntry(<<>>, <<"v">>)>>, <<2>>),
       Section(<<"A">>, FALSE, <<Entry(<<"k">>, <<"v">>)>>, <<3, 4>>),
       Section(<<"B", SP, "c">>, TRUE, <<Entry(<<"a", SLASH, "b">>, <<"1">>)>>, <<>>),
       Section(<<"C">>, FALSE, <<>>, <<>>)>>,
     <<Section(NULL, FALSE, <<Entry(<<SLASH>>, <<"v">>)>>, <<>>)>>,
     <<Section(NULL, FALSE, <<Entry(<<"a", SP, "b">>, <<"v">>)>>, <<>>)>>,
     <<Section(NULL, FALSE, <<Entry(<<"k">>, <<"a", NL, "b">>)>>, <<>>)>>,
     <<Section(NULL, FALSE, <<>>, <<2>>),
       Section(<<>>, FALSE, <<Entry(<<"k">>, <<"v">>)>>, <<>>)>>,
     <<Section(NULL, FALSE, <<Entry(<<>>, <<"v">>)>>, <<>>)>>}

InitRoundTrip ==
    /\ phase = "idle"
    /\ ret = TRUE
    /\ nparses = 0
    /\ kvs \in RoundTripHeaps
    /\ pCallback = FALSE
    /\ calls = <<>>
    /\ errors = <<>>
    /\ text = <<>>
    /\ i = 0
    /\ nline = 0
    /\ nchar = 0
    /\ bracket_level = 0
    /\ inquote = FALSE
    /\ incomment = FALSE
    /\ parsed_key = FALSE
    /\ buf = <<>>
    /\ pc = Uninit
    /\ nc = Uninit
    /\ CurrentKV = this
    /\ CurrentKey = NewKey
    /\ stackpos = 0
    /\ stack = <<this>>
    /\ unclosed = <<>>
    /\ nops = 0
    /\ out = <<>>
    /\ errno = "0"
    /\ call = NoCall
    /\ dumped = NoTree
    /\ dstack = <<>>
    /\ bexpr = NoExpr
    /\ ctx = NewContext

\* DumpToStream on the root, into an empty stream
DumpTree ==
    /\ phase \in {"idle", "returned"}
    /\ IF dumped = NoTree THEN TRUE ELSE dumped.shape # Shape(this)
    /\ out' = DumpToStreamInternal(this, 0)
    /\ dumped' = [shape |-> Shape(this), consistent |-> ConsistentQuoting(kvs)]
    /\ phase' \in DumpOutcomes(this)
    /\ UNCHANGED <<ret, nparses, object, locals, nops, errno, call, dstack, bexpr, ctx>>

\* FromString(out): a new KeyValues, and ParseString(out) on it up to the
\* first loop test
FromString ==
    /\ phase \in {"idle", "returned"}
    /\ IF dumped = NoTree THEN FALSE ELSE dumped.shape = Shape(this)
    /\ nparses < MaxParses
    /\ kvs' = <<NewKeyValues>>
    /\ pCallback' = FALSE
    /\ phase' = "scan"
    /\ nparses' = nparses + 1
    /\ text' = out
    /\ i' = 0
    /\ nline' = 0
    /\ nchar' = 0
    /\ bracket_level' = 0
    /\ inquote' = FALSE
    /\ incomment' = FALSE
    /\ parsed_key' = FALSE
    /\ buf' = <<>>
    /\ pc' = Uninit
    /\ nc' = Uninit
    /\ CurrentKV' = this
    /\ CurrentKey' = NewKey
    /\ stackpos' = 0
    /\ stack' = <<this>>
    /\ unclosed' = <<>>
    /\ errors' = <<>>
    /\ UNCHANGED <<ret, calls, env>>

NextRoundTrip ==
    \/ DumpTree
    \/ FromString
    \/ Scan

SpecRoundTrip == InitRoundTrip /\ [][NextRoundTrip]_vars

----------------------------------------------------------------------------
(* The same text with and without a final newline: a text is parsed into one *)
(* object, and the text followed by a newline into a second, new object.     *)

\* ParseString(string) on the first object
ParseFirst ==
    /\ phase = "idle"
    /\ nparses = 0
    /\ \E string \in Inputs : ParseStringEnter(string)

\* the first ParseString has returned: KeyValues() and ParseString(string
\* followed by '\n') on the new object, up to the first loop test; `call` keeps
\* what the first call returned and the tree it built
ParseWithNewline ==
    /\ phase = "returned"
    /\ nparses = 1
    /\ call' = Called("ParseString", this, text, "none",
                      [ret |-> ret, shape |-> Shape(this)])
    /\ kvs' = <<NewKeyValues>>
    /\ phase' = "scan"
    /\ nparses' = nparses + 1
    /\ text' = Append(text, NL)
    /\ i' = 0
    /\ nline' = 0
    /\ nchar' = 0
    /\ bracket_level' = 0
    /\ inquote' = FALSE
    /\ incomment' = FALSE
    /\ parsed_key' = FALSE
    /\ buf' = <<>>
    /\ pc' = Uninit
    /\ nc' = Uninit
    /\ CurrentKV' = this
    /\ CurrentKey' = NewKey
    /\ stackpos' = 0
    /\ stack' = <<this>>
    /\ unclosed' = <<>>
    /\ errors' = <<>>
    /\ UNCHANGED <<ret, pCallback, calls, nops, out, errno, dumped, dstack, bexpr, ctx>>

NextNewline ==
    \/ ParseFirst
    \/ ParseWithNewline
    \/ Scan

SpecNewline == Init /\ [][NextNewline]_vars

----------------------------------------------------------------------------
(* Deep trees: a chain of sections, each the only child of the one before,   *)
(* as "a{a{a{ ... }}}" parses to.                                            *)

\* the longest chain below the root
MaxDepth == 130

\* a root, named or not, with d sections nested below it; the innermost has
\* the entry k = v
Chain(d, rootName) ==
    [j \in 1..(d + 1) |->
        Section(IF j = 1 THEN rootName ELSE <<"a">>, FALSE,
                IF j = d + 1 THEN <<Entry(<<"k">>, <<"v">>)>> ELSE <<>>,
                IF j <= d THEN <<j + 1>> ELSE <<>>)]

\* the depths dumped: shallow ones, and those around MAX_INDENT_LEVEL
DeepDepths == {0, 1, 2, MAX_INDENT_LEVEL - 1, MAX_INDENT_LEVEL, MAX_INDENT_LEVEL + 1,
               MaxDepth}

DeepHeaps == {Chain(d, rootName) : d \in DeepDepths, rootName \in {NULL, <<"r">>}}

InitDeepDump ==
    /\ phase = "idle"
    /\ ret = TRUE
    /\ nparses = 1
    /\ kvs \in DeepHeaps
    /\ pCallback = FALSE
    /\ calls = <<>>
    /\ errors = <<>>
    /\ text = <<>>
    /\ i = 0
    /\ nline = 0
    /\ nchar = 0
    /\ bracket_level = 0
    /\ inquote = FALSE
    /\ incomment = FALSE
    /\ parsed_key = FALSE
    /\ buf = <<>>
    /\ pc = Uninit
    /\ nc = Uninit
    /\ CurrentKV = this
    /\ CurrentKey = NewKey
    /\ stackpos = 0
    /\ stack = <<this>>
    /\ unclosed = <<>>
    /\ nops = 0
    /\ out = <<>>
    /\ errno = "0"
    /\ call = NoCall
    /\ dumped = NoTree
    /\ dstack = <<>>
    /\ bexpr = NoExpr
    /\ ctx = NewContext

\* DumpToStreamInternal on section s at `indent`, up to its loop over the child
\* sections: the name line and the '{' line of a named section, and the entries
DumpHeader(s, indent) ==
    LET kv == kvs[s]
        named == kv.name # NULL
    IN  (IF named
         THEN Tabs(indent) \o Quoted(kv.quoted, kv.name) \o <<NL>> \o
              Tabs(indent) \o <<LBRACE, NL>>
         ELSE <<>>) \o
        DumpKeys(s, IF named THEN indent + 1 ELSE indent, 1)

\* DumpToStreamInternal after its loop over the child sections: the '}' line
DumpFooter(s, indent) ==
    IF kvs[s].name # NULL THEN Tabs(indent) \o <<RBRACE, NL>> ELSE <<>>

\* the call DumpToStreamInternal(fs, indent) on section s, made with the calls
\* `callers` in progress: it returns at once beyond MAX_INDENT_LEVEL, and else
\* fills buf, writes the header and starts on its child sections; a write
\* past the end of buf may go unnoticed or may not
DumpEnter(s, indent, callers) ==
    IF indent > MAX_INDENT_LEVEL
    THEN /\ out' = out
         /\ dstack' = callers
         /\ UNCHANGED phase
    ELSE /\ out' = out \o DumpHeader(s, indent)
         /\ dstack' = Append(callers, [s |-> s, indent |-> indent, next |-> 1])
         /\ phase' \in IF \E w \in IndentWrites(kvs[s].name # NULL, indent) :
                              w > MAX_INDENT_LEVEL
                        THEN {phase, "undefined"}
                        ELSE {phase}

DumpFrame == UNCHANGED <<ret, nparses, object, locals, errno, call, dumped, bexpr, ctx>>

\* DumpToStream(fs): DumpToStreamInternal(fs, 0) on the root
DumpBegin ==
    /\ Callable
    /\ dstack = <<>>
    /\ nops = 0
    /\ nops' = nops + 1
    /\ DumpEnter(this, 0, <<>>)
    /\ DumpFrame

\* the loop over the child sections: the call on the next child
DumpNextChild ==
    /\ Callable
    /\ dstack # <<>>
    /\ LET top == dstack[Len(dstack)]
       IN  /\ top.next <= Len(kvs[top.s].child_sections)
           /\ DumpEnter(kvs[top.s].child_sections[top.next], top.indent + 1,
                        [dstack EXCEPT ![Len(dstack)].next = @ + 1])
    /\ UNCHANGED nops
    /\ DumpFrame

\* the loop over the child sections is over: the '}' line and the return
DumpReturn ==
    /\ Callable
    /\ dstack # <<>>
    /\ LET top == dstack[Len(dstack)]
       IN  /\ top.next > Len(kvs[top.s].child_sections)
           /\ out' = out \o DumpFooter(top.s, top.indent)
           /\ dstack' = SubSeq(dstack, 1, Len(dstack) - 1)
    /\ UNCHANGED <<phase, nops>>
    /\ DumpFrame

NextDeepDump == DumpBegin \/ DumpNextChild \/ DumpReturn

SpecDeepDump == InitDeepDump /\ [][NextDeepDump]_vars

----------------------------------------------------------------------------
(* Expr.hpp: BoolExpression, a boolean expression parsed to reverse Polish   *)
(* notation by parse() and evaluated from it by eval().                      *)

\* template parameter EXPR_SIZE and the number of variable slots
EXPR_SIZE == 256
PARAM_MAX == 26

\* enum Operator
OR == "|"
AND == "&"
COM == "~"
NOT == "!"
XOR == "^"
LPAREN == "("
RPAREN == ")"

precedence(ch) == IF ch = OR \/ ch = XOR THEN 0 ELSE IF ch = AND THEN 1 ELSE 2

isOp(ch) == ch \in {OR, AND, COM, NOT, XOR}

isVar(x) == \E j \in 1..Len(UpperCase) : UpperCase[j] = x

isText(x) ==
    \/ IsDigit(x)
    \/ isVar(x)
    \/ \E j \in 1..Len(LowerCase) : LowerCase[j] = x
    \/ x = "_"

\* the index of the first slot of m_vars that holds the name, or -1
varIndex(m_vars, name) ==
    IF \E j \in 1..Len(m_vars) : m_vars[j] = name
    THEN (CHOOSE j \in 1..Len(m_vars) :
             m_vars[j] = name /\ \A k \in 1..(j - 1) : m_vars[k] # name) - 1
    ELSE 0 - 1

\* the BoolExpression constructors: m_expr is the expression, cut to
\* EXPR_SIZE - 1 characters; m_vars holds empty strings, and m_varVals and
\* m_rpn are not initialised (the model keeps only the slots that were written)
NewBoolExpression(expression) ==
    [stage |-> "constructed",
     m_expr |-> SubSeq(expression, 1, IF Len(expression) < EXPR_SIZE
                                      THEN Len(expression) ELSE EXPR_SIZE - 1),
     m_vars |-> <<>>,
     m_varVals |-> <<>>]

\* parse(), the loop `while (... && precedence(opstack[stacki - 1]) >
\* precedence(*s))` of an operator: the operators moved from opstack to
\* out_queue.  With an empty opstack the test reads opstack[-1] before it tests
\* stacki > 0; whatever that read gives, the loop ends.
RECURSIVE PopHigher(_, _, _)
PopHigher(queue, opstack, ch) ==
    IF /\ Len(opstack) > 0
       /\ opstack[Len(opstack)] # LPAREN
       /\ precedence(opstack[Len(opstack)]) > precedence(ch)
    THEN PopHigher(Append(queue, opstack[Len(opstack)]),
                   SubSeq(opstack, 1, Len(opstack) - 1), ch)
    ELSE [queue |-> queue, opstack |-> opstack]

\* parse(), the loop of a ')': the operators moved to out_queue down to the
\* nearest '('
RECURSIVE PopToParen(_, _)
PopToParen(queue, opstack) ==
    IF Len(opstack) > 0 /\ opstack[Len(opstack)] # LPAREN
    THEN PopToParen(Append(queue, opstack[Len(opstack)]),
                    SubSeq(opstack, 1, Len(opstack) - 1))
    ELSE [queue |-> queue, opstack |-> opstack]

\* parse(), the loop at its end: opstack emptied into out_queue, top first
RECURSIVE PopAll(_, _)
PopAll(queue, opstack) ==
    IF Len(opstack) > 0
    THEN PopAll(Append(queue, opstack[Len(opstack)]),
                SubSeq(opstack, 1, Len(opstack) - 1))
    ELSE queue

\* the index after the run of isText characters of e that starts at s
RECURSIVE TextEnd(_, _)
TextEnd(e, z) == IF z <= Len(e) /\ isText(e[z]) THEN TextEnd(e, z + 1) ELSE z

\* parse() from the character at s on, with out_queue and opstack as they are:
\* the error returned and the text left in m_rpn.  After a name the loop goes
\* on at s + 1, not after the name; UpperCase[idx + 1] is the source's
\* idx + 'A'.
RECURSIVE ParseFrom(_, _, _, _)
ParseFrom(x, s, queue, opstack) ==
    LET e == x.m_expr
    IN  IF s > Len(e)
        THEN LET q == PopAll(queue, opstack)
             IN  IF Len(q) >= EXPR_SIZE
                 THEN [err |-> "BufTooSmall"]
                 ELSE [err |-> "OK", m_rpn |-> q]
        ELSE IF isspace(e[s]) THEN ParseFrom(x, s + 1, queue, opstack)
        ELSE IF e[s] = LPAREN
        THEN ParseFrom(x, s + 1, queue, Append(opstack, e[s]))
        ELSE IF isOp(e[s])
        THEN LET r == PopHigher(queue, opstack, e[s])
             IN  ParseFrom(x, s + 1, r.queue, Append(r.opstack, e[s]))
        ELSE IF e[s] = RPAREN
        THEN LET r == PopToParen(queue, opstack)
             IN  IF Len(r.opstack) = 0
                 THEN [err |-> "UnmatchedClosingParenths"]
                 ELSE ParseFrom(x, s + 1, r.queue,
                                SubSeq(r.opstack, 1, Len(r.opstack) - 1))
        ELSE LET z == TextEnd(e, s)
             IN  IF z # s
                 THEN LET idx == varIndex(x.m_vars, SubSeq(e, s, z - 1))
                      IN  IF idx = 0 - 1
                          THEN [err |-> "UndefinedVar"]
                          ELSE ParseFrom(x, s + 1, Append(queue, UpperCase[idx + 1]),
                                         opstack)
                 ELSE [err |-> "BadToken"]

parse(x) == ParseFrom(x, 1, <<>>, <<>>)

\* varstack with slot k written: varstack[k + 1] is the source's varstack[k];
\* the slots written are always 0 .. Len(varstack) - 1
WriteSlot(varstack, k, v) ==
    IF k + 1 <= Len(varstack) THEN [varstack EXCEPT ![k + 1] = v]
    ELSE Append(varstack, v)

\* the letter's index into m_varVals: *s - 'A'
LetterIndex(ch) == (CHOOSE j \in 1..Len(UpperCase) : UpperCase[j] = ch) - 1

\* eval() from the character at s of m_rpn on: the possible outcomes, each the
\* error returned and, on OK, the value stored into result.  A binary operator
\* reads a = varstack[vstacki - 1] and b = varstack[vstacki - 2], decrements
\* vstacki and stores into varstack[vstacki]; the end reads varstack[vstacki],
\* which is either of the two values if the slot was never written.
RECURSIVE EvalFrom(_, _, _, _)
EvalFrom(x, s, varstack, vstacki) ==
    LET rpn == x.m_rpn
    IN  IF s > Len(rpn)
        THEN IF vstacki + 1 <= Len(varstack)
             THEN {[err |-> "OK", result |-> varstack[vstacki + 1]]}
             ELSE {[err |-> "OK", result |-> v] : v \in BOOLEAN}
        ELSE IF isVar(rpn[s])
        THEN EvalFrom(x, s + 1,
                      WriteSlot(varstack, vstacki, x.m_varVals[LetterIndex(rpn[s]) + 1]),
                      vstacki + 1)
        ELSE IF rpn[s] \in {OR, AND, XOR}
        THEN IF vstacki < 2 THEN {[err |-> "TooManyOps"]}
             ELSE LET a == varstack[vstacki]
                      b == varstack[vstacki - 1]
                      v == IF rpn[s] = OR THEN a \/ b
                           ELSE IF rpn[s] = AND THEN a /\ b
                           ELSE a # b
                  IN  EvalFrom(x, s + 1, WriteSlot(varstack, vstacki - 1, v),
                               vstacki - 1)
        ELSE IF rpn[s] \in {COM, NOT}
        THEN IF vstacki < 1 THEN {[err |-> "TooManyOps"]}
             ELSE EvalFrom(x, s + 1, [varstack EXCEPT ![vstacki] = ~@], vstacki)
        ELSE EvalFrom(x, s + 1, varstack, vstacki)

eval(x) == EvalFrom(x, 1, <<>>, 0)

\* the expressions constructed
ExprInputs ==
    { <<"A", AND, "B">>,
      <<"A", AND, NOT, "B">>,
      <<"A", OR, NOT, "B">>,
      <<NOT, "A", AND, "B", OR, LPAREN, "C", AND, "D", RPAREN>>,
      <<"A", AND, LPAREN, COM, "B", OR, "C", RPAREN>>,
      <<"A">>,
      <<NOT, "A">>,
      <<"A", XOR, "B">>,
      <<"A", AND, "B", OR, "C">>,
      <<"A", OR, "B", AND, "C">>,
      <<"A", OR, "B", OR, "C">>,
      <<LPAREN, "A", OR, "B", RPAREN, AND, "C">>,
      <<SP, "A", SP, AND, SP, "B">>,
      <<>>,
      <<"A", "B">>,
      <<"A", SP, "B">>,
      <<"A", AND>>,
      <<AND>>,
      <<LPAREN, "A">>,
      <<"A", RPAREN>>,
      <<"a">>,
      <<"a", "b">>,
      <<"a", "b", AND, "A">>,
      <<"A", "+", "B">> }

\* the names given to define(), and the most define() calls made on one object
ExprNames == {<<"A">>, <<"B">>, <<"C">>, <<"D">>, <<"a", "b">>}
MaxDefines == 4

ExprFrame == UNCHANGED <<phase, ret, nparses, object, locals, nops, out, errno,
                         dumped, dstack, ctx>>

\* BoolExpression(expression)
ExprConstruct ==
    /\ bexpr.stage = "none"
    /\ \E expression \in ExprInputs : bexpr' = NewBoolExpression(expression)
    /\ UNCHANGED call
    /\ ExprFrame

\* define(varName, value): the first empty slot of m_vars takes the name and
\* the value and its index is returned; -1 if no slot is empty.  The slots in
\* use are m_vars[0 .. Len(m_vars) - 1].
define(x, varName, value) ==
    IF Len(x.m_vars) < PARAM_MAX
    THEN [x |-> [x EXCEPT !.m_vars = Append(@, varName),
                          !.m_varVals = Append(@, value)],
          ret |-> Len(x.m_vars)]
    ELSE [x |-> x, ret |-> 0 - 1]

\* define(varName, value), before parse()
ExprDefine ==
    /\ bexpr.stage = "constructed"
    /\ Len(bexpr.m_vars) < MaxDefines
    /\ \E varName \in ExprNames, value \in BOOLEAN :
          LET r == define(bexpr, varName, value)
          IN  /\ bexpr' = r.x
              /\ call' = Called("define", "bexpr", varName, value, r.ret)
    /\ ExprFrame

\* set(varIndex, value) on a defined variable
ExprSet ==
    /\ bexpr.stage = "parsed"
    /\ \E idx \in 0..(Len(bexpr.m_vars) - 1), value \in BOOLEAN :
          bexpr' = [bexpr EXCEPT !.m_varVals[idx + 1] = value]
    /\ UNCHANGED call
    /\ ExprFrame

\* parse(); m_rpn is written only on OK
ExprParse ==
    /\ bexpr.stage = "constructed"
    /\ LET r == parse(bexpr)
       IN  bexpr' = [stage |-> "parsed", m_expr |-> bexpr.m_expr,
                     m_vars |-> bexpr.m_vars, m_varVals |-> bexpr.m_varVals,
                     perr |-> r.err,
                     m_rpn |-> IF r.err = "OK" THEN r.m_rpn ELSE "unset"]
    /\ UNCHANGED call
    /\ ExprFrame

\* eval(result) after a parse() that returned OK; result is written only on OK
ExprEval ==
    /\ bexpr.stage = "parsed"
    /\ bexpr.perr = "OK"
    /\ \E r \in eval(bexpr) :
          bexpr' = [stage |-> "evaluated", m_expr |-> bexpr.m_expr,
                    m_vars |-> bexpr.m_vars, m_varVals |-> bexpr.m_varVals,
                    perr |-> bexpr.perr, m_rpn |-> bexpr.m_rpn,
                    everr |-> r.err,
                    result |-> IF r.err = "OK" THEN r.result ELSE "unset"]
    /\ UNCHANGED call
    /\ ExprFrame

NextExpr == ExprConstruct \/ ExprDefine \/ ExprSet \/ ExprParse \/ ExprEval

SpecExpr == Init /\ [][NextExpr]_vars

----------------------------------------------------------------------------
(* CairoTextContext: the font list.  The FreeType and cairo calls are        *)
(* modelled by what they give back: whether they succeed, and the            *)
(* PostScript name of the face.                                              *)

\* the ref names given to loadFont, the PostScript names of the faces in the
\* buffers given to it, and the most fonts loaded
FontRefNames == {<<"r">>, <<"s">>}
PostscriptNames == {<<"r">>, <<"P">>}
MaxFonts == 3

\* what a read of the fontName of a deleted Font_t may give besides the name
GarbageName == <<"?">>

\* fontList_.find(name): the handle stored under the name, or INVALID_FONT
findFont(x, fontRefName) ==
    IF \E e \in x.fontList_ : e[1] = fontRefName
    THEN (CHOOSE e \in x.fontList_ : e[1] = fontRefName)[2]
    ELSE INVALID_FONT

\* loadFont(fontRefName, pixelH, buffer, bufferLen) on a buffer that holds a
\* face with the PostScript name psName: the font becomes the default font if
\* there is none, and fontList_.insert stores it unless the ref name is in
\* the list already
loadFont(x, fontRefName, psName) ==
    LET font == Len(x.fonts) + 1
    IN  [x EXCEPT !.fonts = Append(@, [fontName |-> psName, deleted |-> FALSE]),
                  !.defaultFont_ = IF @ = INVALID_FONT THEN font ELSE @,
                  !.fontList_ = IF findFont(x, fontRefName) = INVALID_FONT
                                THEN @ \cup {<<fontRefName, font>>}
                                ELSE @]

\* unloadFont(handle) where the read of font->fontName gives `name`: the entry
\* stored under that name, if any, is erased, and the Font_t is deleted
unloadFont(x, handle, name) ==
    [x EXCEPT !.fontList_ = {e \in @ : e[1] # name},
              !.fonts[handle].deleted = TRUE]

\* unloadFont(handle): cairo_font_face_destroy drops the last reference to the
\* font face, whose user-data callback deletes the Font_t; the function then
\* reads font->fontName from the deleted object and deletes it a second time.
\* The read gives the name or garbage, and the second delete may go unnoticed
\* or may not.
UnloadOutcomes(x, handle) ==
    {[unloadFont(x, handle, name) EXCEPT !.state = st] :
        name \in {x.fonts[handle].fontName, GarbageName},
        st \in {"ok", "undefined"}}

CtxFrame == UNCHANGED <<phase, ret, nparses, object, locals, nops, out, errno, dumped,
                        dstack, bexpr>>

\* init(): FT_Init_FreeType succeeds or fails
CtxInit ==
    /\ ctx.state = "ok"
    /\ ~ctx.freetype_
    /\ ctx.fonts = <<>>
    /\ \E ok \in BOOLEAN :
          /\ ctx' = [ctx EXCEPT !.freetype_ = ok]
          /\ call' = Called("init", "ctx", "none", "none", ok)
    /\ CtxFrame

\* loadFont: INVALID_FONT when FT_New_Memory_Face fails (as it does without a
\* library) or when cairo fails, and else the new font
CtxLoadFont ==
    /\ ctx.state = "ok"
    /\ Len(ctx.fonts) < MaxFonts
    /\ \E fontRefName \in FontRefNames, psName \in PostscriptNames, ok \in BOOLEAN :
          IF ok /\ ctx.freetype_
          THEN /\ ctx' = loadFont(ctx, fontRefName, psName)
               /\ call' = Called("loadFont", "ctx", fontRefName, psName,
                                 Len(ctx.fonts) + 1)
          ELSE /\ ctx' = ctx
               /\ call' = Called("loadFont", "ctx", fontRefName, psName, INVALID_FONT)
    /\ CtxFrame

\* unloadFont(handle) on a font that loadFont returned and that was not
\* unloaded since
CtxUnloadFont ==
    /\ ctx.state = "ok"
    /\ \E handle \in 1..Len(ctx.fonts) :
          /\ ~ctx.fonts[handle].deleted
          /\ ctx' \in UnloadOutcomes(ctx, handle)
          /\ call' = Called("unloadFont", "ctx", "none", handle, "void")
    /\ CtxFrame

\* unloadFont(fontRefName): unloadFont(findFont(fontRefName)) if a font is
\* found; what is found may have been deleted already
CtxUnloadFontByName ==
    /\ ctx.state = "ok"
    /\ \E fontRefName \in FontRefNames :
          LET hFont == findFont(ctx, fontRefName)
          IN  /\ call' = Called("unloadFont", "ctx", fontRefName, hFont, "void")
              /\ IF hFont = INVALID_FONT THEN ctx' = ctx
                 ELSE IF ctx.fonts[hFont].deleted THEN ctx' = [ctx EXCEPT !.state = "undefined"]
                 ELSE ctx' \in UnloadOutcomes(ctx, hFont)
    /\ CtxFrame

\* findFont(fontRefName)
CtxFindFont ==
    /\ ctx.state = "ok"
    /\ \E fontRefName \in FontRefNames :
          call' = Called("findFont", "ctx", fontRefName, "none", findFont(ctx, fontRefName))
    /\ UNCHANGED ctx
    /\ CtxFrame

\* defaultFont()
CtxDefaultFont ==
    /\ ctx.state = "ok"
    /\ call' = Called("defaultFont", "ctx", "none", "none", ctx.defaultFont_)
    /\ UNCHANGED ctx
    /\ CtxFrame

NextFonts ==
    \/ CtxInit
    \/ CtxLoadFont
    \/ CtxUnloadFont
    \/ CtxUnloadFontByName
    \/ CtxFindFont
    \/ CtxDefaultFont

SpecFonts == Init /\ [][NextFonts]_vars

\* the kinds of the errors reported in the current parse, in order
ErrorKinds == [j \in 1..Len(errors) |-> errors[j][3]]

Reported(kind) == \E j \in 1..Len(errors) : errors[j][3] = kind

----------------------------------------------------------------------------
(* The text format as the specification words it (section 6), read off the   *)
(* text alone: which characters are outside quotes and comments, where tokens *)
(* end, and which '{' has a name.                                             *)

LexInit == [inq |-> FALSE, incom |-> FALSE, tok |-> FALSE, pending |-> FALSE,
            depth |-> 0, ok |-> TRUE]

\* a token ends: it is a key if none is pending, else that key's value
LexEndToken(s) == [s EXCEPT !.tok = FALSE, !.pending = ~s.pending]

\* '/' at position j of t has a '/' before or after it
LexSlashPair(t, j) ==
    /\ t[j] = SLASH
    /\ \/ (j > 1 /\ t[j - 1] = SLASH)
       \/ (j < Len(t) /\ t[j + 1] = SLASH)

LexChar(t, j, s) ==
    LET ch == t[j] IN
    IF ch = NL
        THEN [(IF s.tok THEN LexEndToken(s) ELSE s) EXCEPT
                  !.ok = s.ok /\ ~s.inq, !.incom = FALSE, !.inq = FALSE]
    ELSE IF s.incom THEN s
    ELSE IF ~s.inq /\ LexSlashPair(t, j) THEN [s EXCEPT !.incom = TRUE]
    ELSE IF ch = QUOTE
        THEN IF s.inq THEN [LexEndToken(s) EXCEPT !.inq = FALSE]
             ELSE [s EXCEPT !.inq = TRUE]
    ELSE IF s.inq THEN [s EXCEPT !.tok = TRUE]
    ELSE IF ch = LBRACE
        THEN [s EXCEPT !.ok = s.ok /\ (s.pending \/ s.tok), !.depth = s.depth + 1,
                       !.tok = FALSE, !.pending = FALSE]
    ELSE IF ch = RBRACE
        THEN [s EXCEPT !.ok = s.ok /\ s.depth > 0, !.depth = s.depth - 1,
                       !.tok = FALSE, !.pending = FALSE]
    ELSE IF _internal_isspace(ch)
        THEN IF s.tok THEN LexEndToken(s) ELSE s
    ELSE [s EXCEPT !.tok = TRUE]

RECURSIVE LexScan(_, _, _)
LexScan(t, j, s) == IF j > Len(t) THEN s ELSE LexScan(t, j + 1, LexChar(t, j, s))

\* every quote opened outside a comment is closed before its line ends, every
\* '{' outside quotes and comments follows a name token (a key not yet given a
\* value), and the braces outside quotes and comments are balanced
ValidInput(t) ==
    LET s == LexScan(t, 1, LexInit) IN s.ok /\ ~s.inq /\ s.depth = 0

----------------------------------------------------------------------------
(* Claims *)

\* C1: for every input text in which every opened quote is closed, every '{'
\* outside quotes and comments is preceded by a name token and the braces
\* outside quotes and comments are balanced, ParseString reports no error,
\* returns true and leaves Good() true.
C1_ValidInputParses ==
    ValidInput(text) =>
        /\ phase # "undefined"
        /\ phase = "returned" => (ret = TRUE /\ Good /\ errors = <<>>)

\* C2: a line comment contributes nothing to the tree: a text of "key value"
\* lines, each of which may end in a "//" comment, parses to exactly one
\* entry per line, in source order, with the key and the value written; in
\* particular "k v // trailing comment\nk2 v2" gives exactly k=v and k2=v2.
C2_CommentsContributeNothing ==
    phase = "returned" =>
        /\ \A pcase \in PairCases : text = pcase.text => Pairs(this) = pcase.pairs
        /\ text = ExComment =>
              Pairs(this) = <<[key |-> <<"k">>, value |-> <<"v">>],
                              [key |-> <<"k", "2">>, value |-> <<"v", "2">>]>>

----------------------------------------------------------------------------
(* The places of the scan loop, told from the state the iteration starts in *)

Scanning == phase = "scan" /\ i < nlen

\* the three places that commit the token in buf: the newline, the closing
\* quote, the space
CommitSite ==
    /\ Scanning
    /\ \/ c = NL /\ ~inquote /\ Len(buf) > 0
       \/ c = QUOTE /\ inquote
       \/ c \in {SP, TAB, CR} /\ ~inquote /\ ~incomment /\ Len(buf) > 0

\* a '{' or '}' outside quotes and comments
EnterSite == Scanning /\ c = LBRACE /\ ~inquote /\ ~incomment
ExitSite == Scanning /\ c = RBRACE /\ ~inquote /\ ~incomment

\* the innermost section opened by '{' and not yet closed, the root if none
InnermostOpen == IF unclosed = <<>> THEN this ELSE unclosed[Len(unclosed)]

\* section p has section s among its children
IsChild(p, s) ==
    /\ p \in DOMAIN kvs
    /\ \E j \in 1..Len(kvs[p].child_sections) : kvs[p].child_sections[j] = s

\* no object of the heap changes, and none is added
HeapUnchanged == kvs' = kvs

\* no section of the tree changes but for the root's good flag
TreeUnchanged ==
    \A s \in DOMAIN kvs :
        /\ kvs'[s].name = kvs[s].name
        /\ kvs'[s].keys = kvs[s].keys
        /\ kvs'[s].child_sections = kvs[s].child_sections

\* C3: during a scan a token committed while no key is pending becomes the
\* pending key and adds no entry; a token committed while a key is pending
\* completes exactly one entry (the pending key, this token as value), which
\* is appended at the end of the current section's entry list.
C3_TokensAlternate ==
    [][CommitSite =>
         IF parsed_key
         THEN /\ ~parsed_key'
              /\ CurrentKV \in DOMAIN kvs
              /\ DOMAIN kvs' = DOMAIN kvs
              /\ \A s \in DOMAIN kvs \ {CurrentKV} : kvs'[s] = kvs[s]
              /\ Len(kvs'[CurrentKV].keys) = Len(kvs[CurrentKV].keys) + 1
              /\ Pairs(CurrentKV)' =
                     Append(Pairs(CurrentKV), [key |-> CurrentKey.key, value |-> buf])
         ELSE /\ parsed_key'
              /\ CurrentKey'.key = buf
              /\ HeapUnchanged]_vars

\* C4: the section tree mirrors brace nesting: each '{' outside quotes and
\* comments with a name available appends one new section, named by that
\* token, as the last child of the innermost open section and makes it the
\* innermost open section; each '}' makes the parent the innermost open
\* section again.  "A { B { } }" gives root -> A -> B, no entries, ok = true.
C4_TreeMirrorsBraces ==
    /\ [][(EnterSite /\ (parsed_key \/ Len(buf) > 0)) =>
            LET new == Len(kvs) + 1 IN
            /\ phase' = "scan"
            /\ DOMAIN kvs' = 1..new
            /\ kvs'[new].name = (IF parsed_key THEN CurrentKey.key ELSE buf)
            /\ kvs'[InnermostOpen].child_sections =
                   Append(kvs[InnermostOpen].child_sections, new)
            /\ CurrentKV' = new
            /\ InnermostOpen' = new]_vars
    /\ [][ExitSite => (IsChild(CurrentKV', CurrentKV) /\ CurrentKV' = InnermostOpen')]_vars
    /\ [](phase = "returned" /\ text = ExNested =>
            /\ ret = TRUE
            /\ Len(kvs) = 3
            /\ kvs[1].child_sections = <<2>> /\ kvs[1].keys = <<>>
            /\ kvs[2].name = <<"A">> /\ kvs[2].child_sections = <<3>> /\ kvs[2].keys = <<>>
            /\ kvs[3].name = <<"B">> /\ kvs[3].child_sections = <<>> /\ kvs[3].keys = <<>>)

\* C5: a '{' outside quotes and comments scanned with no pending key and an
\* empty token buffer reports UNNAMED_SECTION, stops the scan at once, returns
\* false with Good() false, and adds no section to the tree.
C5_UnnamedSectionAborts ==
    /\ [][(EnterSite /\ ~parsed_key /\ Len(buf) = 0) =>
            /\ phase' = "returned"
            /\ ret' = FALSE
            /\ ~Good'
            /\ errors' = Append(errors, <<nline, nchar, "UNNAMED_SECTION">>)
            /\ i' = i
            /\ TreeUnchanged]_vars
    /\ [](phase = "returned" /\ text = ExUnnamed =>
            /\ ret = FALSE /\ ~Good
            /\ ErrorKinds = <<"UNNAMED_SECTION">>
            /\ kvs[this].child_sections = <<>> /\ kvs[this].keys = <<>>)

C5_Witness ==
    /\ phase = "returned"
    /\ text = ExUnnamed
    /\ Reported("UNNAMED_SECTION")

\* C6: a newline scanned while a quote is open reports MISSING_QUOTE, stops the
\* scan at once and returns false with Good() false.
C6_NewlineInQuoteAborts ==
    /\ [][(Scanning /\ c = NL /\ inquote) =>
            /\ phase' = "returned"
            /\ ret' = FALSE
            /\ ~Good'
            /\ errors' = Append(errors, <<nline, nchar, "MISSING_QUOTE">>)
            /\ i' = i
            /\ TreeUnchanged]_vars
    /\ [](phase = "returned" /\ text = ExQuoteBreak =>
            /\ ret = FALSE /\ ~Good
            /\ ErrorKinds = <<"MISSING_QUOTE">>)

C6_Witness ==
    /\ phase = "returned"
    /\ text = ExQuoteBreak
    /\ Reported("MISSING_QUOTE")
    /\ i < nlen

\* C7: at the end of the input MISSING_QUOTE is reported if a quote is still
\* open and UNTERMINATED_SECTION if a section opened by '{' has not been
\* closed; whenever either is reported the parse returns false and Good() is
\* false; when neither holds no error is reported.
C7_EndOfInputChecks ==
    (phase = "returned" /\ i >= nlen) =>
        /\ inquote <=> Reported("MISSING_QUOTE")
        /\ unclosed # <<>> <=> Reported("UNTERMINATED_SECTION")
        /\ errors # <<>> => (ret = FALSE /\ ~Good)
        /\ (~inquote /\ unclosed = <<>>) => errors = <<>>

\* C8: for every input the section-stack index never drops below 0: the root
\* is never popped and no stack slot below the root is read.
C8_StackNeverBelowRoot == stackpos >= 0

\* C9 as written: over any sequence of operations on one object, once Good()
\* is false it is never true again.
C9_GoodNeverRestored == [][~Good => ~Good']_vars

\* C9, amended: once Good() is false, no operation makes it true again except
\* the entry of a new parse (ParseString, directly or through ParseFile),
\* which sets it to true before the first character is read; every other
\* operation, and every step of a scan, leaves a false flag false.
C9_GoodRestoredOnlyByParseEntry ==
    [][(~Good /\ Good') => (phase' = "scan" /\ i' = 0 /\ nparses' = nparses + 1)]_vars

\* a failed parse, then other calls on the object, and the flag is still false
C9_Witness ==
    /\ ~Good
    /\ phase = "returned"
    /\ errors # <<>>
    /\ nops = MaxOps

\* C10: between an opening and a closing quote the characters space, tab,
\* carriage return, '{', '}' and '/' are appended to the token unchanged and
\* open no section, close none, start no comment and split no token; the
\* token committed at the closing quote contains them verbatim.
C10_QuotedVerbatim ==
    /\ [][(Scanning /\ inquote /\ c \in {SP, TAB, CR, LBRACE, RBRACE, SLASH}) =>
            /\ buf' = Append(buf, c)
            /\ phase' = "scan"
            /\ i' = i + 1
            /\ UNCHANGED <<inquote, incomment, parsed_key, kvs, CurrentKV, CurrentKey,
                           stackpos, stack, bracket_level, unclosed, errors>>]_vars
    /\ [][(Scanning /\ inquote /\ c = QUOTE) =>
            IF parsed_key
            THEN phase' = "scan" =>
                   kvs'[CurrentKV].keys[Len(kvs'[CurrentKV].keys)].value = buf
            ELSE CurrentKey'.key = buf]_vars
    /\ [](phase = "returned" /\ text = ExQuoted =>
            Pairs(this) = <<[key |-> <<"k">>,
                            value |-> <<"a", SP, LBRACE, SLASH, SLASH, RBRACE, TAB, CR>>]>>)

C10_Witness ==
    /\ phase = "returned"
    /\ text = ExQuoted
    /\ Len(kvs[this].keys) = 1
    /\ Len(kvs) = 1

----------------------------------------------------------------------------
(* Claims about reads and writes of a section.  The section is the root, the  *)
(* call is the one recorded in `call`, and a step of SpecAccess is one call. *)

TypedGetterOps == {"GetBool", "GetInt", "GetFloat", "GetDouble"}
TypedSetterOps == {"SetBool", "SetInt", "SetFloat"}
KeyedOps == TypedGetterOps \cup TypedSetterOps \cup {"GetString", "HasKey", "SetString", "ClearKey"}

\* the cache kind a typed operation asks for or sets
KindOf(op) ==
    CASE op \in {"GetBool", "SetBool"} -> "BOOL"
      [] op \in {"GetInt", "SetInt"} -> "INT"
      [] OTHER -> "FLOAT"

\* the entries of the root with key `key`, and the first of them
Matches(key) == {j \in 1..Len(kvs[this].keys) : kvs[this].keys[j].key = key}
KeyPresent(key) == Matches(key) # {}
FirstMatch(key) == CHOOSE j \in Matches(key) : \A m \in Matches(key) : j <= m

\* a and b are the same text but for the case of the letters
EqualsIgnoringCase(a, b) ==
    /\ Len(a) = Len(b)
    /\ \A j \in 1..Len(a) :
          \/ a[j] = b[j]
          \/ \E d \in 1..26 : {a[j], b[j]} = {UpperCase[d], LowerCase[d]}

\* the texts that are a boolean, a decimal integer, a decimal number
IsTrueText(v) == EqualsIgnoringCase(v, <<"t", "r", "u", "e">>) \/ v = <<"1">>
IsFalseText(v) == EqualsIgnoringCase(v, <<"f", "a", "l", "s", "e">>) \/ v = <<"0">>
IsIntText(v) ==
    LET ds == IF v # <<>> /\ v[1] \in {"-", "+"} THEN Tail(v) ELSE v
    IN  ds # <<>> /\ \A j \in 1..Len(ds) : IsDigit(ds[j])
IsNumberText(v) ==
    LET ds == IF v # <<>> /\ v[1] \in {"-", "+"} THEN Tail(v) ELSE v
    IN  /\ \E j \in 1..Len(ds) : IsDigit(ds[j])
        /\ \A j \in 1..Len(ds) : IsDigit(ds[j]) \/ ds[j] = "."
        /\ Cardinality({j \in 1..Len(ds) : ds[j] = "."}) <= 1
ParsesAs(kind, v) ==
    CASE kind = "BOOL" -> IsTrueText(v) \/ IsFalseText(v)
      [] kind = "INT" -> IsIntText(v)
      [] OTHER -> IsNumberText(v)

\* the last call was a typed getter for a key with no entry, or whose first
\* entry holds (uncached) an empty value or a value that is not of the type
DefaultCase ==
    /\ call.op \in TypedGetterOps
    /\ \/ ~KeyPresent(call.key)
       \/ /\ kvs[this].keys[FirstMatch(call.key)].cached = "NONE"
          /\ ~ParsesAs(KindOf(call.op), kvs[this].keys[FirstMatch(call.key)].value)

\* C11: GetInt, GetFloat, GetDouble and GetBool return the caller's default
\* when no entry has the key, when the first matching entry's value does not
\* parse as the requested type, and when that value is the empty string.
C11_DefaultOnMissingOrUnparsable ==
    DefaultCase => call.ret = call.arg

\* C12: a read of an uncached entry as boolean gives true exactly when the
\* value is "true" in any case or "1", false exactly when it is "false" in
\* any case or "0", and fails, so that GetBool returns the default, for every
\* other value.
C12_BoolTexts ==
    (/\ call.op = "GetBool"
     /\ KeyPresent(call.key)
     /\ kvs[this].keys[FirstMatch(call.key)].cached = "NONE") =>
        LET v == kvs[this].keys[FirstMatch(call.key)].value IN
        call.ret = (IF IsTrueText(v) THEN TRUE ELSE IF IsFalseText(v) THEN FALSE ELSE call.arg)

C12_Witness ==
    /\ call.op = "GetBool"
    /\ call.key = <<"k">>
    /\ call.arg = FALSE
    /\ call.ret = TRUE
    /\ kvs[this].keys = <<Entry(<<"k">>, <<"T", "r", "u", "e">>)>>

\* C13: after a successful typed read of a key the entry stored in the
\* section has its cache kind set to the requested type and its cached value
\* set to the value returned.
C13_ReadFillsStoredCache ==
    (/\ call.op \in TypedGetterOps
     /\ KeyPresent(call.key)
     /\ call.ret # call.arg) =>
        LET k == kvs[this].keys[FirstMatch(call.key)] IN
        /\ k.cached = KindOf(call.op)
        /\ call.op = "GetBool" => k.cachedv.bval = call.ret
        /\ call.op = "GetInt" => k.cachedv.ival = call.ret
        /\ call.op \in {"GetFloat", "GetDouble"} => k.cachedv.fval = call.ret

\* this step is a call of member function op
CallOf(op) == nops' = nops + 1 /\ call'.op = op

\* C14: read-after-write through the same type: after SetInt, SetBool,
\* SetFloat or SetString(k, v) on a section with an entry of key k, the
\* matching getter called next with key k returns v, whatever the default.
C14_ReadAfterWrite ==
    /\ [][(call.op = "SetInt" /\ CallOf("GetInt") /\ call'.key = call.key
              /\ KeyPresent(call.key)) => call'.ret = call.arg]_vars
    /\ [][(call.op = "SetBool" /\ CallOf("GetBool") /\ call'.key = call.key
              /\ KeyPresent(call.key)) => call'.ret = call.arg]_vars
    /\ [][(call.op = "SetFloat" /\ (CallOf("GetFloat") \/ CallOf("GetDouble"))
              /\ call'.key = call.key /\ KeyPresent(call.key)) => call'.ret = call.arg]_vars
    /\ [][(call.op = "SetString" /\ CallOf("GetString") /\ call'.key = call.key
              /\ KeyPresent(call.key)) => call'.ret = call.arg]_vars

\* SetInt("k", 7) on an entry whose text is not 7, then GetInt("k") gave 7
C14_Witness ==
    /\ call.op = "GetInt"
    /\ call.key = <<"k">>
    /\ call.ret = 7
    /\ KeyPresent(<<"k">>)
    /\ kvs[this].keys[FirstMatch(<<"k">>)].value = <<"a", "b", "c">>
    /\ kvs[this].keys[FirstMatch(<<"k">>)].cached = "INT"

\* the decimal text of a natural number
RECURSIVE DecimalText(_)
DecimalText(n) ==
    IF n < 10 THEN <<Digits[n + 1]>>
    ELSE DecimalText(n \div 10) \o <<Digits[(n % 10) + 1]>>

\* C15: a typed setter overwrites the value of the first matching entry as
\* well as its cache: after SetInt, SetBool or SetFloat(k, v) the stored value
\* is a text of v, and GetString(k) called next returns it.
C15_SetterOverwritesValue ==
    /\ [][(CallOf("SetInt") /\ KeyPresent(call'.key)) =>
             kvs'[this].keys[FirstMatch(call'.key)].value = DecimalText(call'.arg)]_vars
    /\ [][(CallOf("SetBool") /\ KeyPresent(call'.key)) =>
             LET v == kvs'[this].keys[FirstMatch(call'.key)].value IN
             IF call'.arg THEN IsTrueText(v) ELSE IsFalseText(v)]_vars
    /\ [][(CallOf("SetFloat") /\ KeyPresent(call'.key)) =>
             IsNumberText(kvs'[this].keys[FirstMatch(call'.key)].value)]_vars
    /\ [][(call.op = "SetInt" /\ CallOf("GetString") /\ call'.key = call.key
              /\ KeyPresent(call.key)) => call'.ret = DecimalText(call.arg)]_vars

\* C16: SetBool, SetInt, SetFloat and SetString called with a key that no
\* entry of the section has leave the whole heap as it was, and HasKey of that
\* key called next returns false.
C16_SetAbsentKeyIsNoOp ==
    /\ [][((\E op \in TypedSetterOps \cup {"SetString"} : CallOf(op))
              /\ ~KeyPresent(call'.key)) => kvs' = kvs]_vars
    /\ [][(call.op \in TypedSetterOps \cup {"SetString"} /\ ~KeyPresent(call.key)
              /\ CallOf("HasKey") /\ call'.key = call.key) => call'.ret = FALSE]_vars

\* a setter was called with key "z" on a section that has entries, none "z"
C16_Witness ==
    /\ call.op = "SetString"
    /\ call.key = <<"z">>
    /\ Len(kvs[this].keys) = 2
    /\ ~KeyPresent(<<"z">>)

\* C17: ClearKey(k) on a section with an entry of key k sets the first such
\* entry's value to "" and its cache kind to none and changes nothing else:
\* no entry is removed, the other entries and the children are as before,
\* and HasKey(k) called next returns true and GetString(k) returns "".
C17_ClearKeyEmptiesFirstMatch ==
    /\ [][(CallOf("ClearKey") /\ KeyPresent(call'.key)) =>
             LET j == FirstMatch(call'.key) IN
             /\ kvs'[this].keys = [kvs[this].keys EXCEPT ![j].value = <<>>,
                                                         ![j].cached = "NONE"]
             /\ kvs'[this].child_sections = kvs[this].child_sections
             /\ \A s \in DOMAIN kvs \ {this} : kvs'[s] = kvs[s]]_vars
    /\ [][(call.op = "ClearKey" /\ KeyPresent(call.key) /\ CallOf("HasKey")
              /\ call'.key = call.key) => call'.ret = TRUE]_vars
    /\ [][(call.op = "ClearKey" /\ KeyPresent(call.key) /\ CallOf("GetString")
              /\ call'.key = call.key) => call'.ret = <<>>]_vars

\* SetInt then ClearKey of the first of two entries "k": its value is empty,
\* its cache kind is none, the second is as it was
C17_Witness ==
    /\ call.op = "ClearKey"
    /\ call.key = <<"k">>
    /\ Len(kvs[this].keys) = 2
    /\ kvs[this].keys[1] = [Entry(<<"k">>, <<>>) EXCEPT !.cachedv.ival = 7]
    /\ kvs[this].keys[2] = Entry(<<"k">>, <<"7">>)

\* the entries of the root whose value is `str`
ValueMatches(str) == {j \in 1..Len(kvs[this].keys) : kvs[this].keys[j].value = str}

C18_WitnessKeyOnly ==
    /\ call.op = "RemoveKey"
    /\ call.key = <<"k">>
    /\ KeyPresent(<<"k">>)
    /\ ValueMatches(<<"k">>) = {}
    /\ Len(kvs[this].keys) = 2

\* what a typed getter can return when it reads entry k and nothing else
ReadsOf(op, k, d) ==
    {d} \cup
    (CASE op = "GetBool" -> {r.v : r \in {x \in ReadBool(k, errno) : x.ok}}
       [] op = "GetInt" -> {r.v : r \in {x \in ReadInt(k, errno) : x.ok}}
       [] OTHER -> {r.v : r \in {x \in ReadFloat(k, errno) : x.ok}})

\* C19: with duplicate keys every keyed operation acts on the first entry, in
\* insertion order, whose key is exactly the argument, and neither reads nor
\* changes a later one, also when the first match does not parse; a key that
\* differs in case is no match; GetChild returns the first child of the name.
C19_FirstMatchOnly ==
    /\ [][((\E op \in KeyedOps : CallOf(op)) /\ KeyPresent(call'.key)) =>
             LET j == FirstMatch(call'.key)
                 k == kvs[this].keys[j]
                 k2 == kvs'[this].keys[j]
             IN  /\ Len(kvs'[this].keys) = Len(kvs[this].keys)
                 /\ \A m \in 1..Len(kvs[this].keys) :
                       m # j => kvs'[this].keys[m] = kvs[this].keys[m]
                 /\ call'.op \in TypedGetterOps => call'.ret \in ReadsOf(call'.op, k, call'.arg)
                 /\ call'.op = "GetString" => call'.ret = k.value
                 /\ call'.op = "HasKey" => call'.ret = TRUE
                 /\ call'.op \in TypedSetterOps => k2.cached = KindOf(call'.op)
                 /\ call'.op = "SetBool" => k2.cachedv.bval = call'.arg
                 /\ call'.op = "SetInt" => k2.cachedv.ival = call'.arg
                 /\ call'.op = "SetFloat" => k2.cachedv.fval = call'.arg
                 /\ call'.op = "SetString" => k2.value = call'.arg
                 /\ call'.op = "ClearKey" => k2.value = <<>>]_vars
    /\ [][((\E op \in KeyedOps : CallOf(op)) /\ ~KeyPresent(call'.key)) =>
             /\ kvs' = kvs
             /\ call'.op \in TypedGetterOps \cup {"GetString"} => call'.ret = call'.arg
             /\ call'.op = "HasKey" => call'.ret = FALSE]_vars
    /\ [][CallOf("GetChild") =>
             LET cs == kvs[this].child_sections
                 hits == {j \in 1..Len(cs) : kvs[cs[j]].name = call'.key}
             IN  IF hits = {} THEN call'.ret = NULL
                 ELSE call'.ret = cs[CHOOSE j \in hits : \A m \in hits : j <= m]]_vars

\* SetString("k", "1") on k=abc, k=7 changed the first and not the second
C19_Witness ==
    /\ call.op = "SetString"
    /\ call.key = <<"k">>
    /\ call.arg = <<"1">>
    /\ kvs[this].keys = <<Entry(<<"k">>, <<"1">>), Entry(<<"k">>, <<"7">>)>>

\* C20: round trip: for every tree T with consistent quoting, the text dumped
\* from T parses without error into a tree with the same section names, the
\* same entries in the same order and the same children in the same order,
\* and the same holds for the tree that parse gives when it is dumped again.
C20_RoundTrip ==
    /\ phase # "undefined"
    /\ (phase = "returned" /\ dumped # NoTree /\ text = out) =>
          (dumped.consistent =>
              /\ ret = TRUE
              /\ Good
              /\ errors = <<>>
              /\ Shape(this) = dumped.shape)

----------------------------------------------------------------------------
(* Claims about the tree a parse leaves and the tokens it commits *)

\* C21: after any parse, successful or failed, every section of the tree
\* other than the root has a name that is present and not empty.
C21_SectionsAreNamed ==
    phase = "returned" =>
        \A s \in Subtree(this) \ {this} : kvs[s].name # NULL /\ kvs[s].name # <<>>

\* the two places where the scan stops before the end of the input
AbortSite ==
    \/ Scanning /\ c = NL /\ inquote
    \/ EnterSite /\ ~parsed_key /\ Len(buf) = 0

\* C23: when a scan aborts before the end of the input (UNNAMED_SECTION, or
\* MISSING_QUOTE at a newline) exactly one error is reported for that parse,
\* every section and entry committed before the error position is still in
\* the tree, unchanged, and nothing after the error position changes the tree
\* or reports a further error.
C23_AbortKeepsTreeSoFar ==
    /\ [][AbortSite =>
            /\ phase' = "returned"
            /\ i' = i
            /\ Len(errors') = 1
            /\ errors'[1][3] \in {"UNNAMED_SECTION", "MISSING_QUOTE"}
            /\ Len(calls') = (IF pCallback THEN Len(calls) + 1 ELSE Len(calls))
            /\ TreeUnchanged
            /\ Subtree(this)' = Subtree(this)]_vars
    /\ [][phase = "returned" => UNCHANGED <<kvs, errors, calls>>]_vars

\* "a{{a": the scan stopped at the second '{' with section a in the tree and a
\* character left unread
C23_Witness ==
    /\ phase = "returned"
    /\ ErrorKinds = <<"UNNAMED_SECTION">>
    /\ Len(kvs[this].child_sections) = 1
    /\ i < nlen - 1

\* the iteration appends c to the token buffer
EatSite ==
    /\ Scanning
    /\ ~incomment
    /\ c \notin {NL, QUOTE}
    /\ ~(c = SLASH /\ ~inquote /\ (pcNow = SLASH \/ ncNow = SLASH))
    /\ IF inquote THEN TRUE ELSE c \notin {SP, TAB, CR, LBRACE, RBRACE}

\* the character before c belongs to the same lexical token as c: inside a
\* quote it is not the opening quote, outside it is neither white space nor a
\* quote nor a brace
SameTokenAsPrevious ==
    /\ i > 0
    /\ IF inquote THEN text[i] # QUOTE
       ELSE text[i] \notin {SP, TAB, CR, NL, QUOTE, LBRACE, RBRACE}

\* C24: every token the scanner commits is one lexical token of the input, a
\* maximal run of characters that are neither white space nor structural, or
\* the content of one quoted span: a character joins a token already begun
\* only if the character before it is part of the same token, so characters
\* separated by '{', '}' or a quote are never merged and characters scanned
\* before a '{' never appear in a token committed inside that section.
C24_TokensAreLexical ==
    [][(EatSite /\ Len(buf) > 0) => SameTokenAsPrevious]_vars

\* C25: for every input whose tokens are at most 511 characters long and whose
\* brace nesting never exceeds 511 open sections (every text of the model is
\* one), each write into the token buffer, the terminating NUL included, is at
\* an index 0..511 and each write into the section stack is at a slot 0..511.
C25_WritesInsideBufAndStack ==
    /\ [][EatSite => Len(buf) \in 0..(BUF_SIZE - 1)]_vars
    /\ [][(CommitSite \/ (EnterSite /\ ~parsed_key /\ Len(buf) > 0)) =>
             Len(buf) \in 0..(BUF_SIZE - 1)]_vars
    /\ [][(EnterSite /\ (parsed_key \/ Len(buf) > 0)) =>
             (stackpos + 1) \in 0..(STACK_SIZE - 1)]_vars

\* C26: the quoted flag of an entry is true exactly when the value token of
\* that entry was written between quotes, whichever character ended the token
\* (closing quote, space or tab, newline) and whatever tokens came before.
C26_EntryQuotedIsValueQuoted ==
    [][(CommitSite /\ parsed_key /\ CurrentKV \in DOMAIN kvs) =>
          LET ks == kvs'[CurrentKV].keys
          IN  ks[Len(ks)].quoted = (c = QUOTE)]_vars

\* the last character at or before position j of the text that is no white
\* space, 0 if there is none
RECURSIVE LastNonSpace(_)
LastNonSpace(j) ==
    IF j = 0 THEN 0
    ELSE IF _internal_isspace(text[j]) THEN LastNonSpace(j - 1) ELSE j

\* how the name token of the section entered at this '{' was written, told
\* from the text: "plain" when it is the run of characters still in the
\* buffer; else it is the pending key, which is the last token before the
\* '{': "quoted" when that token ends in a closing quote, "plain" when it ends
\* in an ordinary character; "unknown" when a comment, a brace or further
\* characters stand between the key and the '{'
NameQuoting ==
    LET j == LastNonSpace(i) IN
    IF ~parsed_key THEN "plain"
    ELSE IF Len(buf) > 0 \/ j = 0 \/ (\E m \in 1..i : text[m] = SLASH) THEN "unknown"
    ELSE IF text[j] = QUOTE THEN "quoted"
    ELSE IF text[j] \in {LBRACE, RBRACE} THEN "unknown"
    ELSE "plain"

\* C27: the quoted flag of a parsed section is true exactly when the section's
\* own name token was written in quotes; it does not depend on the quoting of
\* any earlier key or value token.
C27_SectionQuotedIsNameQuoted ==
    [][(EnterSite /\ (parsed_key \/ Len(buf) > 0) /\ phase' = "scan") =>
          (NameQuoting # "unknown" =>
              kvs'[Len(kvs')].quoted = (NameQuoting = "quoted"))]_vars

\* every entry of every section has a key and a value, and every element of
\* every child list is a section of the heap
NoAbsentElements ==
    \A s \in DOMAIN kvs :
        /\ \A j \in 1..Len(kvs[s].keys) :
              kvs[s].keys[j].key # NULL /\ kvs[s].keys[j].value # NULL
        /\ \A j \in 1..Len(kvs[s].child_sections) :
              kvs[s].child_sections[j] \in DOMAIN kvs \ {this}

\* C28: after any parse and any sequence of setter, ClearKey and RemoveKey
\* calls every stored entry has a key and a value (the value may be empty)
\* and every element of every child list is a section; an entry is added only
\* by a commit that has a pending key, and the entry is that key with the
\* committed token as its value.
C28_EntriesAndChildrenPresent ==
    /\ [](phase # "undefined" => NoAbsentElements)
    /\ [][\A s \in DOMAIN kvs :
             Len(kvs'[s].keys) > Len(kvs[s].keys) =>
                /\ CommitSite
                /\ parsed_key
                /\ CurrentKey.key # NULL
                /\ kvs'[s].keys = Append(kvs[s].keys,
                                         [kvs'[s].keys[Len(kvs'[s].keys)] EXCEPT
                                             !.key = CurrentKey.key, !.value = buf])]_vars

\* after two parses and a ClearKey or SetString call the root has a child and an
\* entry with the empty value
C28_Witness ==
    /\ phase = "returned"
    /\ nops > 0
    /\ \E j \in 1..Len(kvs[this].keys) : kvs[this].keys[j].value = <<>>
    /\ Len(kvs[this].child_sections) > 0

----------------------------------------------------------------------------
(* Claims about the dump *)

\* the dump as the specification words it: a named section at indent n has
\* its name and braces after n tabs and its entries and children at n + 1; an
\* unnamed root has no name line and no braces, and its entries and its
\* children are at the indent of the root itself
RECURSIVE WordedDump(_, _)
RECURSIVE WordedChildren(_, _, _)
WordedChildren(s, n, j) ==
    IF j > Len(kvs[s].child_sections) THEN <<>>
    ELSE WordedDump(kvs[s].child_sections[j], n) \o WordedChildren(s, n, j + 1)

WordedDump(s, n) ==
    IF kvs[s].name = NULL
    THEN DumpKeys(s, n, 1) \o WordedChildren(s, n, 1)
    ELSE Tabs(n) \o Quoted(kvs[s].quoted, kvs[s].name) \o <<NL>> \o
         Tabs(n) \o <<LBRACE, NL>> \o
         DumpKeys(s, n + 1, 1) \o WordedChildren(s, n + 1, 1) \o
         Tabs(n) \o <<RBRACE, NL>>

\* C29: the dump of an unnamed root has no name line and no braces for the
\* root and has the root's entries and the root's direct child sections at
\* indent 0; a named section dumped at indent n has its name and braces after
\* n tabs and its entries and child sections at n + 1 tabs.
C29_DumpIndentation ==
    [][dumped' # dumped => out' = WordedDump(this, 0)]_vars

\* The truth value of an expression under the usual reading, by recursive
\* descent: Or := And (('|' | '^') And)*, And := Unary ('&' Unary)*,
\* Unary := ('!' | '~') Unary | '(' Or ')' | name.  Each operator gives
\* whether the text from p on starts with such a phrase, the phrase's value and
\* the index after it.
RefFail == [ok |-> FALSE, val |-> FALSE, p |-> 0]

RECURSIVE SkipSpace(_, _)
SkipSpace(e, p) == IF p <= Len(e) /\ isspace(e[p]) THEN SkipSpace(e, p + 1) ELSE p

RECURSIVE RefOr(_, _)
RECURSIVE RefOrRest(_, _, _)
RECURSIVE RefAnd(_, _)
RECURSIVE RefAndRest(_, _, _)
RECURSIVE RefUnary(_, _)
RefUnary(x, p) ==
    LET e == x.m_expr
        q == SkipSpace(e, p)
    IN  IF q > Len(e) THEN RefFail
        ELSE IF e[q] \in {NOT, COM}
        THEN LET r == RefUnary(x, q + 1)
             IN  IF r.ok THEN [r EXCEPT !.val = ~@] ELSE RefFail
        ELSE IF e[q] = LPAREN
        THEN LET r == RefOr(x, q + 1)
                 z == SkipSpace(e, r.p)
             IN  IF r.ok /\ z <= Len(e) /\ e[z] = RPAREN
                 THEN [r EXCEPT !.p = z + 1]
                 ELSE RefFail
        ELSE IF isText(e[q])
        THEN LET z == TextEnd(e, q)
                 idx == varIndex(x.m_vars, SubSeq(e, q, z - 1))
             IN  IF idx = 0 - 1 THEN RefFail
                 ELSE [ok |-> TRUE, val |-> x.m_varVals[idx + 1], p |-> z]
        ELSE RefFail

RefAndRest(x, v, p) ==
    LET e == x.m_expr
        q == SkipSpace(e, p)
    IN  IF q <= Len(e) /\ e[q] = AND
        THEN LET r == RefUnary(x, q + 1)
             IN  IF r.ok THEN RefAndRest(x, v /\ r.val, r.p) ELSE RefFail
        ELSE [ok |-> TRUE, val |-> v, p |-> q]

RefAnd(x, p) ==
    LET l == RefUnary(x, p) IN IF l.ok THEN RefAndRest(x, l.val, l.p) ELSE RefFail

RefOrRest(x, v, p) ==
    LET e == x.m_expr
        q == SkipSpace(e, p)
    IN  IF q <= Len(e) /\ e[q] \in {OR, XOR}
        THEN LET r == RefAnd(x, q + 1)
             IN  IF r.ok
                 THEN RefOrRest(x, IF e[q] = OR THEN v \/ r.val ELSE v # r.val, r.p)
                 ELSE RefFail
        ELSE [ok |-> TRUE, val |-> v, p |-> q]

RefOr(x, p) ==
    LET l == RefAnd(x, p) IN IF l.ok THEN RefOrRest(x, l.val, l.p) ELSE RefFail

\* the expression is a boolean expression over defined variables, and its
\* truth value
TruthValue(x) ==
    LET r == RefOr(x, 1)
    IN  IF r.ok /\ r.p > Len(x.m_expr) THEN r ELSE RefFail

\* C22: for every boolean expression over defined variables built from '|',
\* '&', '^', '!', '~' and parentheses that parse() accepts, and every
\* assignment of the variables, eval() returns Error::OK and sets result to the
\* expression's truth value (NOT binds tighter than AND, AND tighter than
\* OR/XOR, parentheses override).
C22_EvalGivesTruthValue ==
    (bexpr.stage = "evaluated" /\ TruthValue(bexpr).ok)
        => bexpr.everr = "OK" /\ bexpr.result = TruthValue(bexpr).val

\* C31: define(name, value) returns the index of the variable with that name
\* whether it is new or already defined: a second define of a name returns the
\* index of the first and makes the new value the one eval uses; -1 is
\* returned only when all PARAM_MAX slots are taken by other names.
C31_DefineReturnsIndexOfName ==
    [][(bexpr.stage = "constructed" /\ bexpr'.stage = "constructed" /\ bexpr' # bexpr)
       => LET name == call'.key
              before == varIndex(bexpr.m_vars, name)
              after == varIndex(bexpr'.m_vars, name)
          IN  /\ call'.op = "define"
              /\ before # 0 - 1 => call'.ret = before
              /\ (before # 0 - 1 \/ Len(bexpr.m_vars) < PARAM_MAX)
                    => /\ call'.ret = after
                       /\ after # 0 - 1
                       /\ bexpr'.m_varVals[after + 1] = call'.arg]_vars

\* the identifiers of e from s on: the maximal runs of isText characters
RECURSIVE Identifiers(_, _)
Identifiers(e, s) ==
    IF s > Len(e) THEN 0
    ELSE IF isText(e[s]) THEN 1 + Identifiers(e, TextEnd(e, s))
    ELSE Identifiers(e, s + 1)

\* C32: parse() consumes an identifier of several characters as one token:
\* for an expression whose variables were all defined, parse() returns OK and
\* m_rpn holds exactly one variable reference per identifier occurrence.
C32_IdentifierIsOneToken ==
    (bexpr.stage \in {"parsed", "evaluated"} /\ TruthValue(bexpr).ok)
        => /\ bexpr.perr = "OK"
           /\ Len(SelectSeq(bexpr.m_rpn, isVar)) = Identifiers(bexpr.m_expr, 1)

\* C33: every entry produced by a parse is stored in the section that was the
\* innermost open section when its key token was scanned: a key pending at a
\* '}' is never completed into an entry of the parent, and a value is never
\* attached to a key scanned in a different section.
C33_EntryStoredWhereKeyScanned ==
    [][\A s \in DOMAIN kvs :
          (phase = "scan" /\ Len(kvs'[s].keys) > Len(kvs[s].keys))
             => s = CurrentKey.scanned_in]_vars

\* C34: end of input terminates a token like white space does: for every text
\* t, ParseString(t) and ParseString(t followed by one newline) build the same
\* tree (same sections, same entries in order).
C34_EndOfInputEndsToken ==
    (phase = "returned" /\ call.op = "ParseString") => Shape(this) = call.ret.shape

\* what the typed getter op returns for the key and the default when it is
\* called with errno = 0
ReturnsWithErrnoZero(op, key, _default) ==
    {r.ret : r \in (CASE op = "GetInt" -> GetInt(this, key, _default, "0")
                      [] op = "GetFloat" -> GetFloat(this, key, _default, "0")
                      [] OTHER -> GetDouble(this, key, _default, "0"))}

\* C35: typed reads are deterministic in the entry alone: for a fixed entry
\* value, cache state and default, GetInt, GetFloat and GetDouble return the
\* same result whatever getter calls were made before (a call made after
\* other calls returns what it returns as the first call).
C35_TypedReadsIgnoreEarlierCalls ==
    [][(nops' = nops + 1 /\ call'.op \in {"GetInt", "GetFloat", "GetDouble"})
       => call'.ret \in ReturnsWithErrnoZero(call'.op, call'.key, call'.arg)]_vars

\* handle h is a font that was loaded and not unloaded since
Loaded(x, h) == h \in 1..Len(x.fonts) /\ ~x.fonts[h].deleted

\* C36: after any sequence of successful loadFont and unloadFont calls,
\* findFont(refName) and defaultFont() only return handles of fonts that were
\* loaded and not yet unloaded (or INVALID_FONT): after unloadFont of a font
\* loaded under refName, findFont(refName) returns INVALID_FONT and
\* defaultFont() is not the unloaded handle.
C36_OnlyLoadedFontsReturned ==
    (ctx.state = "ok" /\ call.op \in {"findFont", "defaultFont"})
        => call.ret = INVALID_FONT \/ Loaded(ctx, call.ret)

\* C30: the dump is bounded by the maximum indent: a section reached at an
\* indent beyond MAX_INDENT_LEVEL (128) writes nothing, and at every indent at
\* which a section is written every write into the indentation buffer of
\* MAX_INDENT_LEVEL + 1 bytes is at an index 0..MAX_INDENT_LEVEL.
C30_DumpBoundedByIndent ==
    [][(dstack = <<>> /\ dstack' # <<>>) \/
       (dstack # <<>> /\
        dstack[Len(dstack)].next <= Len(kvs[dstack[Len(dstack)].s].child_sections))
       => LET top == dstack[Len(dstack)]
              callee == IF dstack = <<>> THEN this
                        ELSE kvs[top.s].child_sections[top.next]
              indent == IF dstack = <<>> THEN 0 ELSE top.indent + 1
          IN  IF indent > MAX_INDENT_LEVEL
              THEN out' = out
              ELSE /\ IndentWrites(kvs[callee].name # NULL, indent)
                         \subseteq 0..MAX_INDENT_LEVEL
                   /\ phase' # "undefined"]_vars

====
